---- MODULE Spec2Model ----
(***************************************************************************)
(* Model of the questionnaire cleaner of quanttide-data-fixtures.          *)
(*                                                                         *)
(*   blueprint/processor/questionnaire_cleaner.py  (impl = "blueprint")    *)
(*   factory/processor/questionnaire_cleaner.py    (impl = "factory")      *)
(*                                                                         *)
(* A DataFrame is an ordered list of column labels and a sequence of rows, *)
(* each row a function from the labels to cells.  A cell is a missing      *)
(* value (NaN or None), a number, a boolean or a text.  A text is a        *)
(* sequence of tokens: a digit, "-" or "." is a token of its own, and a    *)
(* word is one token (a Chinese word is written as cn_ and its pinyin, so  *)
(* "25岁" is <<"2", "5", "cn_sui">> and "男" is <<"cn_nan">>).  Column      *)
(* labels are atomic strings, the localized ones in pinyin:                *)
(*                                                                         *)
(*   提交时间 tijiaoshijian   年龄 nianling       工作年限 gongzuonianxian  *)
(*   所属部门 suoshubumen     满意度 manyidu      工作负荷 gongzuofuhe      *)
(*   任期 renqi               月收入 yueshouru    性别 xingbie              *)
(*   教育程度 jiaoyuchengdu   雇佣状态 guyongzhuangtai   城市 chengshi      *)
(*   备注 beizhu   养老金 yanglaojin   养老 yanglao   年假 nianjia          *)
(*   带薪年假 daixinnianjia   医疗 yiliao   医保 yibao                      *)
(*   医疗保险 yiliaobaoxian   其他 qita   其他福利 qitafuli                 *)
(***************************************************************************)
EXTENDS Integers, Sequences, FiniteSets, TLC

VARIABLES
    impl,        \* which QuestionnaireCleaner class the instance is
    input,       \* the caller's raw table
    arg,         \* the table handed to the last process call (NoTable before)
    raw_df,      \* QuestionnaireCleaner.raw_df
    cleaned_df,  \* QuestionnaireCleaner.cleaned_df
    result,      \* what the last process call returned, or the raised error
    last,        \* the last call: "none", "process" or "reprocess"
    file,                 \* the table pd.read_csv gives for dirty_csv_path
    pipeline_raw_df,      \* QuestionnairePipeline.raw_df
    pipeline_cleaned_df,  \* QuestionnairePipeline.cleaned_df
    loads,                \* the number of load_data calls so far
    pipeline_last,        \* the last pipeline call, "raised" when it raised
    self_plan_content,       \* QuestionnaireInspector.plan_content, as lines
    self_field_definitions,  \* QuestionnaireInspector.field_definitions
    inspected,               \* the cleaned table the caller has inspected
    report,                  \* what the last inspector call returned or raised
    inspector_last           \* the last inspector call, "none" before the first

cleaner_vars == <<impl, input, arg, raw_df, cleaned_df, result, last>>

pipeline_vars ==
    <<file, pipeline_raw_df, pipeline_cleaned_df, loads, pipeline_last>>

inspector_vars ==
    <<self_plan_content, self_field_definitions, inspected, report,
      inspector_last>>

vars == <<cleaner_vars, pipeline_vars, inspector_vars>>

----------------------------------------------------------------------------
(* Cells *)

NaN == [t |-> "nan", n |-> 0, s |-> <<>>]
None == [t |-> "none", n |-> 0, s |-> <<>>]
Num(x) == [t |-> "num", n |-> x, s |-> <<>>]
Str(x) == [t |-> "str", n |-> 0, s |-> x]
Bool(b) == [t |-> "bool", n |-> IF b THEN 1 ELSE 0, s |-> <<>>]

\* pd.isna
isna(c) == c.t \in {"nan", "none"}

----------------------------------------------------------------------------
(* Texts *)

DigitChars == <<"0", "1", "2", "3", "4", "5", "6", "7", "8", "9">>

IsDigit(ch) == \E d \in 1..10 : DigitChars[d] = ch

DigitValue(ch) == (CHOOSE d \in 1..10 : DigitChars[d] = ch) - 1

\* str(n) of a Python int
RECURSIVE NatStr(_)
NatStr(n) == IF n < 10 THEN <<DigitChars[n + 1]>>
             ELSE Append(NatStr(n \div 10), DigitChars[(n % 10) + 1])

IntStr(n) == IF n < 0 THEN <<"-">> \o NatStr(-n) ELSE NatStr(n)

AllDigits(w) == Len(w) > 0 /\ \A i \in 1..Len(w) : IsDigit(w[i])

RECURSIVE NatVal(_)
NatVal(w) == IF Len(w) = 0 THEN 0
             ELSE 10 * NatVal(SubSeq(w, 1, Len(w) - 1)) + DigitValue(w[Len(w)])

\* the text left of a trailing ".0" (the repr of an integral float), else
\* the text
IntegralPart(w) ==
    IF Len(w) > 2 /\ w[Len(w) - 1] = "." /\ w[Len(w)] = "0"
    THEN SubSeq(w, 1, Len(w) - 2) ELSE w

Unsigned(w) == IF Len(w) > 0 /\ w[1] = "-" THEN SubSeq(w, 2, Len(w)) ELSE w

\* a text that pd.to_numeric reads as a number: -?digits(.0)?
IsNumeral(w) == AllDigits(Unsigned(IntegralPart(w)))

NumeralValue(w) ==
    IF Len(w) > 0 /\ w[1] = "-" THEN 0 - NatVal(Unsigned(IntegralPart(w)))
    ELSE NatVal(IntegralPart(w))

\* str.replace(old, ""), old one token: every occurrence is removed
RECURSIVE StrRemove(_, _)
StrRemove(w, old) ==
    IF Len(w) = 0 THEN <<>>
    ELSE IF w[1] = old THEN StrRemove(Tail(w), old)
    ELSE <<w[1]>> \o StrRemove(Tail(w), old)

----------------------------------------------------------------------------
(* DataFrames *)

\* a raised exception (KeyError on a missing column) in place of a table
KeyError == [err |-> TRUE, cols |-> <<>>, rows |-> <<>>]

\* no table yet (Python None)
NoTable == [err |-> FALSE, cols |-> <<"None">>, rows |-> <<>>]

DataFrame(cols, rows) == [err |-> FALSE, cols |-> cols, rows |-> rows]

\* len(df)
len(df) == Len(df.rows)

\* c in df.columns
HasCol(df, c) == \E k \in 1..Len(df.cols) : df.cols[k] = c

\* the rows with cell c of row i set to vals[i]
RECURSIVE SetCells(_, _, _)
SetCells(rows, c, vals) ==
    IF Len(rows) = 0 THEN <<>>
    ELSE LET n == Len(rows)
         IN  Append(SetCells(SubSeq(rows, 1, n - 1), c, vals),
                    (c :> vals[n]) @@ rows[n])

\* the rows restricted to the columns keep
RECURSIVE Project(_, _)
Project(rows, keep) ==
    IF Len(rows) = 0 THEN <<>>
    ELSE LET n == Len(rows)
         IN  Append(Project(SubSeq(rows, 1, n - 1), keep),
                    [k \in keep |-> rows[n][k]])

\* df[c] = vals: a new column goes last, an existing one keeps its place
Assign(df, c, vals) ==
    [df EXCEPT !.cols = IF HasCol(df, c) THEN @ ELSE Append(@, c),
               !.rows = SetCells(@, c, vals)]

RECURSIVE SelectSeq2(_, _)
SelectSeq2(cols, c) ==
    IF Len(cols) = 0 THEN <<>>
    ELSE IF cols[1] = c THEN SelectSeq2(Tail(cols), c)
    ELSE <<cols[1]>> \o SelectSeq2(Tail(cols), c)

\* df.drop(columns=[c])
Drop(df, c) ==
    [df EXCEPT !.cols = SelectSeq2(@, c),
               !.rows = Project(@, {df.cols[k] : k \in 1..Len(df.cols)} \ {c})]

\* series.fillna(v)
fillna(c, v) == IF isna(c) THEN v ELSE c

\* series.map(mapping): a value that is no key of the dict becomes NaN
map(c, mapping) ==
    IF c.t = "str" /\ c.s \in DOMAIN mapping THEN Str(mapping[c.s]) ELSE NaN

\* pd.to_numeric(series, errors="coerce")
to_numeric(c) ==
    IF c.t = "num" THEN c
    ELSE IF c.t = "str" /\ IsNumeral(c.s) THEN Num(NumeralValue(c.s))
    ELSE NaN

\* series.astype(str): str(x) of each element
astype_str(c) ==
    CASE c.t = "num" -> Str(IntStr(c.n))
      [] c.t = "str" -> c
      [] c.t = "bool" -> Str(IF c.n = 1 THEN <<"True">> ELSE <<"False">>)
      [] c.t = "none" -> Str(<<"None">>)
      [] c.t = "nan" -> Str(<<"nan">>)

\* series.astype(bool): bool(x) of each element
astype_bool(c) ==
    CASE c.t = "bool" -> c
      [] c.t = "num" -> Bool(c.n # 0)
      [] c.t = "str" -> Bool(Len(c.s) > 0)
      [] c.t = "none" -> Bool(FALSE)
      [] c.t = "nan" -> Bool(TRUE)

\* series.str.replace(old, "") on a column of texts
str_replace(c, old) == IF c.t = "str" THEN Str(StrRemove(c.s, old)) ELSE c

\* series.replace(old, new): only a value equal to old as a whole is replaced
replace(c, old, new) == IF c.t = "str" /\ c.s = old THEN Str(new) ELSE c

\* pd.to_datetime(series, format="mixed", errors="coerce").dt.strftime(
\* "%Y-%m-%d %H:%M:%S").  A date text is <<year, sep, month, sep, day>>,
\* optionally followed by " " and the time of day, each field one token;
\* "-" and "/" are the separators the parser accepts.
IsDateText(w) ==
    /\ Len(w) \in {5, 7}
    /\ w[2] \in {"-", "/"}
    /\ w[4] = w[2]
    /\ Len(w) = 7 => w[6] = " "

strftime(c) ==
    IF c.t = "str" /\ IsDateText(c.s)
    THEN Str(<<c.s[1], "-", c.s[3], "-", c.s[5], " ",
               IF Len(c.s) = 7 THEN c.s[7] ELSE "00:00:00">>)
    ELSE NaN

----------------------------------------------------------------------------
(* Class-level configuration of QuestionnaireCleaner *)

GENDER_MAPPING ==
       (<<"cn_nan">> :> <<"male">>)          \* "男": "male"
    @@ (<<"cn_nv">> :> <<"female">>)         \* "女": "female"
    @@ (<<"cn_qita">> :> <<"other">>)        \* "其他": "other"
    @@ (<<"cn_weizhi">> :> <<"unknown">>)    \* "未知": "unknown"

EDU_MAPPING ==
       (<<"cn_chuzhong">> :> <<"cn_chuzhong">>)   \* "初中"
    @@ (<<"cn_gaozhong">> :> <<"cn_gaozhong">>)   \* "高中"
    @@ (<<"cn_dazhuan">> :> <<"cn_dazhuan">>)     \* "大专"
    @@ (<<"cn_benke">> :> <<"cn_benke">>)         \* "本科"
    @@ (<<"cn_shuoshi">> :> <<"cn_shuoshi">>)     \* "硕士"
    @@ (<<"MBA">> :> <<"cn_shuoshi">>)            \* "MBA": "硕士"
    @@ (<<"cn_boshi">> :> <<"cn_boshi">>)         \* "博士"
    @@ (<<"cn_qita">> :> <<"cn_qita">>)           \* "其他"
    @@ (<<"cn_weizhi">> :> <<"cn_weizhi">>)       \* "未知"

EMP_STATUS_MAPPING ==
       (<<"cn_zaizhi">> :> <<"cn_zaizhi">>)           \* "在职"
    @@ (<<"cn_shixisheng">> :> <<"cn_shixisheng">>)   \* "实习生"
    @@ (<<"cn_fanpin">> :> <<"cn_fanpin">>)           \* "返聘"
    @@ (<<"cn_tuixiu">> :> <<"cn_feiyuangong">>)      \* "退休": "非员工"
    @@ (<<"cn_xuesheng">> :> <<"cn_feiyuangong">>)    \* "学生": "非员工"
    @@ (<<"cn_qita">> :> <<"cn_qita">>)               \* "其他"
    @@ (<<"cn_weizhi">> :> <<"cn_weizhi">>)           \* "未知"

CITY_MAPPING ==
       (<<"cn_beijing">> :> <<"cn_beijing">>)             \* "北京"
    @@ (<<"cn_shanghai">> :> <<"cn_shanghai">>)           \* "上海"
    @@ (<<"cn_guangzhou">> :> <<"cn_guangzhou">>)         \* "广州"
    @@ (<<"cn_shenzhen">> :> <<"cn_shenzhen">>)           \* "深圳"
    @@ (<<"cn_hangzhou">> :> <<"cn_hangzhou">>)           \* "杭州"
    @@ (<<"cn_chengdu">> :> <<"cn_chengdu">>)             \* "成都"
    @@ (<<"cn_chongqing">> :> <<"cn_chongqing">>)         \* "重庆"
    @@ (<<"cn_qitachengshi">> :> <<"cn_qitachengshi">>)   \* "其他城市"
    @@ (<<"cn_weizhichengshi">> :> <<"cn_weizhichengshi">>) \* "未知城市"

\* factory only: the local dicts of _standardize_dept, _standardize_gender
\* and _standardize_city
dept_mapping ==
       (<<"cn_yanfabu">> :> <<"cn_yanfa">>)           \* "研发部": "研发"
    @@ (<<"R&D">> :> <<"cn_yanfa">>)                  \* "R&D": "研发"
    @@ (<<"cn_xiaoshoubu">> :> <<"cn_xiaoshou">>)     \* "销售部": "销售"
    @@ (<<"cn_shengchan">> :> <<"cn_shengchan">>)     \* "生产"
    @@ (<<"cn_shengchanbu">> :> <<"cn_shengchan">>)   \* "生产部": "生产"
    @@ (<<"cn_zhineng">> :> <<"cn_zhineng">>)         \* "职能"
    @@ (<<"cn_zhinengbu">> :> <<"cn_zhineng">>)       \* "职能部": "职能"
    @@ (<<"cn_guanli">> :> <<"cn_guanli">>)           \* "管理"
    @@ (<<"cn_guanlibu">> :> <<"cn_guanli">>)         \* "管理部": "管理"
    @@ (<<"cn_guwen">> :> <<"cn_qita">>)              \* "顾问": "其他"
    @@ (<<"cn_ceshibumen">> :> <<"cn_ceshibumen">>)   \* "测试部门"

gender_mapping ==
       (<<"cn_nan">> :> <<"male">>)
    @@ (<<"male">> :> <<"male">>)
    @@ (<<"M">> :> <<"male">>)
    @@ (<<"1">> :> <<"male">>)
    @@ (<<"cn_nv">> :> <<"female">>)
    @@ (<<"female">> :> <<"female">>)
    @@ (<<"F">> :> <<"female">>)
    @@ (<<"2">> :> <<"female">>)
    @@ (<<"cn_qita">> :> <<"other">>)
    @@ (<<"other">> :> <<"other">>)
    @@ (<<"cn_weizhi">> :> <<"unknown">>)
    @@ (<<"unknown">> :> <<"unknown">>)

city_mapping ==
       (<<"cn_beijing">> :> <<"cn_beijing">>)
    @@ (<<"Beijing">> :> <<"cn_beijing">>)
    @@ (<<"cn_shanghai">> :> <<"cn_shanghai">>)
    @@ (<<"Shanghai">> :> <<"cn_shanghai">>)
    @@ (<<"shang hai">> :> <<"cn_shanghai">>)
    @@ (<<"cn_guangzhou">> :> <<"cn_guangzhou">>)
    @@ (<<"cn_shenzhen">> :> <<"cn_shenzhen">>)
    @@ (<<"cn_hangzhou">> :> <<"cn_hangzhou">>)
    @@ (<<"cn_chengdu">> :> <<"cn_chengdu">>)
    @@ (<<"cn_chongqing">> :> <<"cn_chongqing">>)
    @@ (<<"cn_qitachengshi">> :> <<"cn_qitachengshi">>)
    @@ (<<"cn_weizhichengshi">> :> <<"cn_weizhichengshi">>)

\* _process_benefits: the output column and the source labels tried in order
benefit_cols == <<
    <<"benefit_pension", <<"yanglaojin", "yanglao">>>>,
    <<"benefit_annual_leave", <<"nianjia", "daixinnianjia">>>>,
    <<"benefit_health_ins", <<"yiliao", "yibao", "yiliaobaoxian">>>>,
    <<"benefit_other", <<"qita", "qitafuli">>>> >>

\* _select_and_order_columns
output_columns == <<
    "id", "submit_time", "age", "total_exp", "dept", "overall_satis",
    "workload", "benefit_pension", "benefit_annual_leave",
    "benefit_health_ins", "benefit_other", "other_notes", "gender", "edu",
    "emp_status", "tenure", "monthly_income", "city", "is_duplicate",
    "data_quality_flag" >>

\* the data_quality_flag labels
Normal == <<"cn_zhengchang">>                \* "正常"
IncomeMissing == <<"cn_shouruqueshi">>       \* "收入缺失"
KeyFieldsMissing == <<"cn_guanjianziduanqueshi">>   \* "关键字段缺失"
LogicStudent == <<"cn_luojijiaoyan_xuesheng">>      \* "逻辑校验_学生"
LogicRetiree == <<"cn_luojijiaoyan_tuixiu">>        \* "逻辑校验_退休"
Anomaly == <<"cn_yichangzhi_shourufushu_gongzuofuheyuejie">>
                                             \* "异常值_收入负数_工作负荷越界"
TestData == <<"cn_ceshishuju">>              \* "测试数据"
DuplicateRecord == <<"cn_chongfujilu">>      \* "重复记录"

NonEmployee == <<"cn_feiyuangong">>          \* "非员工"
TestDept == <<"cn_ceshibumen">>              \* "测试部门"
Other == <<"cn_qita">>                       \* "其他"
Unknown == <<"cn_weizhi">>                   \* "未知"
UnknownCity == <<"cn_weizhichengshi">>       \* "未知城市"

----------------------------------------------------------------------------
(* The stages of QuestionnaireCleaner.process.  cls is "blueprint" or      *)
(* "factory"; a stage that reads a column the table lacks raises KeyError. *)

\* df[c] of row i
Cell(df, i, c) == df.rows[i][c]

\* df[dst] = vals, vals computed from df[src]: reading a column the table
\* lacks raises KeyError
Transform(df, src, dst, vals) ==
    IF ~HasCol(df, src) THEN KeyError ELSE Assign(df, dst, vals)

\* the localized label when the table has it, else the canonical one
SourceCol(df, localized, canonical) ==
    IF HasCol(df, localized) THEN localized ELSE canonical

\* comparisons of a numeric Series with a constant: NaN compares False
lt(c, k) == c.t = "num" /\ c.n < k
gt(c, k) == c.t = "num" /\ c.n > k
ge(c, k) == c.t = "num" /\ c.n >= k

_standardize_datetime(cls, df) ==
    LET time_col == SourceCol(df, "tijiaoshijian", "submit_time")
    IN  Transform(df, time_col, "submit_time",
                  [i \in 1..len(df) |-> strftime(Cell(df, i, time_col))])

\* variant: the synthesized ids count from 0 (range(0, len(df)))
ZeroBasedId(cls, df) ==
    LET d == IF ~HasCol(df, "id")
             THEN Assign(df, "id", [i \in 1..len(df) |-> Num(i - 1)])
             ELSE df
    IN  Assign(d, "id", [i \in 1..len(d) |-> to_numeric(Cell(d, i, "id"))])

\* variant: the ids are synthesized even when the table supplies an id column
AlwaysSynthesizedId(cls, df) ==
    Assign(df, "id", [i \in 1..len(df) |-> Num(i)])

_standardize_id(cls, df) ==
    LET d == IF ~HasCol(df, "id")
             THEN Assign(df, "id", [i \in 1..len(df) |-> Num(i)])
             ELSE df
    IN  Assign(d, "id", [i \in 1..len(d) |-> to_numeric(Cell(d, i, "id"))])

\* factory: the decoration stripping that precedes pd.to_numeric
clean_age(c) ==
    replace(replace(str_replace(astype_str(c), "cn_sui"),     \* "岁"
                    <<"NULL">>, <<>>),
            <<"cn_weizhi">>, <<>>)                              \* "未知"

clean_years(c) ==
    replace(str_replace(astype_str(c), "cn_nian"),              \* "年"
            <<"cn_gangruzhi">>, <<"0">>)                        \* "刚入职"

clean_satisfaction(c) ==
    replace(str_replace(astype_str(c), "cn_manyi"),             \* "满意"
            <<"cn_fen">>, <<>>)                                 \* "分"

clean_income(c) ==
    replace(replace(replace(str_replace(astype_str(c), "cn_yuan"),  \* "元"
                            <<"K">>, <<"0", "0", "0">>),
                    <<"cn_baomi">>, <<>>),                      \* "保密"
            <<"-">>, <<>>)

clean_notes(c) ==
    replace(replace(replace(str_replace(astype_str(c), "emdash"),   \* "—"
                            <<"nan">>, <<>>),
                    <<"cn_qita", "lbracket">>, <<>>),           \* "其他〖"
            <<"rbracket">>, <<>>)                               \* "〗"

\* factory: the canonical column is rewritten from itself when the table has
\* it, else it is written from the localized column, which is then dropped,
\* else the table is left as it is
CanonicalFirst(df, canonical, localized, from_canonical, from_localized) ==
    IF HasCol(df, canonical) THEN Assign(df, canonical, from_canonical)
    ELSE IF HasCol(df, localized)
         THEN Drop(Assign(df, canonical, from_localized), localized)
    ELSE df

_process_age(cls, df) ==
    IF cls = "blueprint"
    THEN LET age_col == SourceCol(df, "nianling", "age")
         IN  Transform(df, age_col, "age",
                 [i \in 1..len(df) |-> to_numeric(Cell(df, i, age_col))])
    ELSE IF HasCol(df, "age")
         THEN Assign(df, "age",
                  [i \in 1..len(df) |->
                      to_numeric(replace(clean_age(Cell(df, i, "age")),
                                         <<"cn_ershiba">>,       \* "二十八"
                                         <<"2", "8">>))])
    ELSE IF HasCol(df, "nianling")
         THEN Assign(df, "age",
                  [i \in 1..len(df) |->
                      to_numeric(clean_age(Cell(df, i, "nianling")))])
    ELSE df

_process_total_exp(cls, df) ==
    IF cls = "blueprint"
    THEN LET exp_col == SourceCol(df, "gongzuonianxian", "total_exp")
         IN  Transform(df, exp_col, "total_exp",
                 [i \in 1..len(df) |-> to_numeric(Cell(df, i, exp_col))])
    ELSE CanonicalFirst(df, "total_exp", "gongzuonianxian",
             [i \in 1..len(df) |->
                 to_numeric(clean_years(Cell(df, i, "total_exp")))],
             [i \in 1..len(df) |->
                 to_numeric(clean_years(Cell(df, i, "gongzuonianxian")))])

_process_satisfaction(cls, df) ==
    IF cls = "blueprint"
    THEN LET satis_col == SourceCol(df, "manyidu", "overall_satis")
         IN  Transform(df, satis_col, "overall_satis",
                 [i \in 1..len(df) |-> to_numeric(Cell(df, i, satis_col))])
    ELSE CanonicalFirst(df, "overall_satis", "manyidu",
             [i \in 1..len(df) |->
                 to_numeric(clean_satisfaction(Cell(df, i, "overall_satis")))],
             [i \in 1..len(df) |->
                 to_numeric(clean_satisfaction(Cell(df, i, "manyidu")))])

_process_workload(cls, df) ==
    LET workload_col == SourceCol(df, "gongzuofuhe", "workload")
    IN  Transform(df, workload_col, "workload",
            [i \in 1..len(df) |-> to_numeric(Cell(df, i, workload_col))])

_process_tenure(cls, df) ==
    IF cls = "blueprint"
    THEN LET tenure_col == SourceCol(df, "renqi", "tenure")
         IN  Transform(df, tenure_col, "tenure",
                 [i \in 1..len(df) |-> to_numeric(Cell(df, i, tenure_col))])
    ELSE CanonicalFirst(df, "tenure", "renqi",
             [i \in 1..len(df) |-> to_numeric(clean_years(Cell(df, i, "tenure")))],
             [i \in 1..len(df) |-> to_numeric(clean_years(Cell(df, i, "renqi")))])

\* variant: a negative income is kept
KeepNegative(c) == c

\* df.loc[df["monthly_income"] < 0, "monthly_income"] = None
NegativeToNull(c) == IF lt(c, 0) THEN NaN ELSE c

_process_monthly_income(cls, df) ==
    LET income_col == SourceCol(df, "yueshouru", "monthly_income")
        d == IF cls = "blueprint"
             THEN Transform(df, income_col, "monthly_income",
                      [i \in 1..len(df) |-> to_numeric(Cell(df, i, income_col))])
             ELSE CanonicalFirst(df, "monthly_income", "yueshouru",
                      [i \in 1..len(df) |->
                          to_numeric(clean_income(Cell(df, i, "monthly_income")))],
                      [i \in 1..len(df) |->
                          to_numeric(clean_income(Cell(df, i, "yueshouru")))])
    IN  IF d.err THEN d
        ELSE Transform(d, "monthly_income", "monthly_income",
                 [i \in 1..len(d) |->
                     NegativeToNull(Cell(d, i, "monthly_income"))])

\* factory: series.map(dept_mapping).fillna(series).fillna("其他")
mapped_dept(c) == fillna(fillna(map(c, dept_mapping), c), Str(Other))

\* variant: a raw value that is no key of dept_mapping becomes the catch-all
CatchAllDept(cls, df) ==
    IF cls = "blueprint"
    THEN LET dept_col == SourceCol(df, "suoshubumen", "dept")
         IN  Transform(df, dept_col, "dept",
                 [i \in 1..len(df) |->
                     fillna(map(Cell(df, i, dept_col), dept_mapping),
                            Str(Other))])
    ELSE CanonicalFirst(df, "dept", "suoshubumen",
             [i \in 1..len(df) |->
                 fillna(map(Cell(df, i, "dept"), dept_mapping), Str(Other))],
             [i \in 1..len(df) |->
                 fillna(map(Cell(df, i, "suoshubumen"), dept_mapping),
                        Str(Other))])

_standardize_dept(cls, df) ==
    IF cls = "blueprint"
    THEN LET dept_col == SourceCol(df, "suoshubumen", "dept")
         IN  Transform(df, dept_col, "dept",
                 [i \in 1..len(df) |-> fillna(Cell(df, i, dept_col), Str(Other))])
    ELSE CanonicalFirst(df, "dept", "suoshubumen",
             [i \in 1..len(df) |-> mapped_dept(Cell(df, i, "dept"))],
             [i \in 1..len(df) |-> mapped_dept(Cell(df, i, "suoshubumen"))])

\* series.fillna(default).map(mapping).fillna(fallback)
lookup(c, default, mapping, fallback) ==
    fillna(map(fillna(c, Str(default)), mapping), Str(fallback))

\* variant: no fallback after the lookup, an unmapped value stays NaN
GenderWithoutFallback(cls, df) ==
    IF cls = "blueprint"
    THEN LET gender_col == SourceCol(df, "xingbie", "gender")
         IN  Transform(df, gender_col, "gender",
                 [i \in 1..len(df) |->
                     map(fillna(Cell(df, i, gender_col), Str(<<"unknown">>)),
                         GENDER_MAPPING)])
    ELSE CanonicalFirst(df, "gender", "xingbie",
             [i \in 1..len(df) |->
                 map(fillna(Cell(df, i, "gender"), Str(<<"unknown">>)),
                     gender_mapping)],
             [i \in 1..len(df) |->
                 map(fillna(Cell(df, i, "xingbie"), Str(<<"unknown">>)),
                     gender_mapping)])

_standardize_gender(cls, df) ==
    IF cls = "blueprint"
    THEN LET gender_col == SourceCol(df, "xingbie", "gender")
         IN  Transform(df, gender_col, "gender",
                 [i \in 1..len(df) |->
                     lookup(Cell(df, i, gender_col), <<"unknown">>,
                            GENDER_MAPPING, <<"unknown">>)])
    ELSE CanonicalFirst(df, "gender", "xingbie",
             [i \in 1..len(df) |->
                 lookup(Cell(df, i, "gender"), <<"unknown">>,
                        gender_mapping, <<"unknown">>)],
             [i \in 1..len(df) |->
                 lookup(Cell(df, i, "xingbie"), <<"unknown">>,
                        gender_mapping, <<"unknown">>)])

_standardize_education(cls, df) ==
    IF cls = "blueprint"
    THEN LET edu_col == SourceCol(df, "jiaoyuchengdu", "edu")
         IN  Transform(df, edu_col, "edu",
                 [i \in 1..len(df) |->
                     lookup(Cell(df, i, edu_col), Unknown, EDU_MAPPING, Other)])
    ELSE CanonicalFirst(df, "edu", "jiaoyuchengdu",
             [i \in 1..len(df) |->
                 lookup(Cell(df, i, "edu"), Unknown, EDU_MAPPING, Other)],
             [i \in 1..len(df) |->
                 lookup(Cell(df, i, "jiaoyuchengdu"), Unknown, EDU_MAPPING,
                        Other)])

_standardize_emp_status(cls, df) ==
    IF cls = "blueprint"
    THEN LET emp_col == SourceCol(df, "guyongzhuangtai", "emp_status")
         IN  Transform(df, emp_col, "emp_status",
                 [i \in 1..len(df) |->
                     lookup(Cell(df, i, emp_col), Unknown, EMP_STATUS_MAPPING,
                            Other)])
    ELSE CanonicalFirst(df, "emp_status", "guyongzhuangtai",
             [i \in 1..len(df) |->
                 lookup(Cell(df, i, "emp_status"), Unknown,
                        EMP_STATUS_MAPPING, Other)],
             [i \in 1..len(df) |->
                 lookup(Cell(df, i, "guyongzhuangtai"), Unknown,
                        EMP_STATUS_MAPPING, Other)])

_standardize_city(cls, df) ==
    IF cls = "blueprint"
    THEN LET city_col == SourceCol(df, "chengshi", "city")
         IN  Transform(df, city_col, "city",
                 [i \in 1..len(df) |->
                     lookup(Cell(df, i, city_col), UnknownCity, CITY_MAPPING,
                            UnknownCity)])
    ELSE CanonicalFirst(df, "city", "chengshi",
             [i \in 1..len(df) |->
                 lookup(map(Cell(df, i, "city"), city_mapping), UnknownCity,
                        CITY_MAPPING, UnknownCity)],
             [i \in 1..len(df) |->
                 lookup(map(Cell(df, i, "chengshi"), city_mapping), UnknownCity,
                        CITY_MAPPING, UnknownCity)])

\* the first of the labels the table has, "" (Python None) when it has none
RECURSIVE FirstPresent(_, _)
FirstPresent(df, keywords) ==
    IF Len(keywords) = 0 THEN ""
    ELSE IF HasCol(df, keywords[1]) THEN keywords[1]
    ELSE FirstPresent(df, Tail(keywords))

RECURSIVE BenefitsFrom(_, _)
BenefitsFrom(df, k) ==
    IF k > Len(benefit_cols) THEN df
    ELSE LET col_name == benefit_cols[k][1]
             source_col == FirstPresent(df, benefit_cols[k][2])
             next == IF source_col # ""
                     THEN Assign(df, col_name,
                              [i \in 1..len(df) |->
                                  astype_bool(fillna(Cell(df, i, source_col),
                                                     Bool(FALSE)))])
                     ELSE Assign(df, col_name,
                                 [i \in 1..len(df) |-> Bool(FALSE)])
         IN  BenefitsFrom(next, k + 1)

_process_benefits(cls, df) == BenefitsFrom(df, 1)

_process_other_notes(cls, df) ==
    LET Empty == [i \in 1..len(df) |-> Str(<<>>)]
    IN  IF cls = "blueprint"
        THEN LET notes_col == SourceCol(df, "beizhu", "other_notes")
             IN  IF HasCol(df, notes_col)
                 THEN Assign(df, "other_notes",
                          [i \in 1..len(df) |->
                              fillna(Cell(df, i, notes_col), Str(<<>>))])
                 ELSE Assign(df, "other_notes", Empty)
        ELSE IF HasCol(df, "other_notes") \/ HasCol(df, "beizhu")
             THEN CanonicalFirst(df, "other_notes", "beizhu",
                      [i \in 1..len(df) |->
                          fillna(clean_notes(Cell(df, i, "other_notes")),
                                 Str(<<>>))],
                      [i \in 1..len(df) |->
                          fillna(clean_notes(Cell(df, i, "beizhu")), Str(<<>>))])
        ELSE Assign(df, "other_notes", Empty)

\* the key of DataFrame.duplicated: missing values compare equal
subset == <<"submit_time", "age", "total_exp", "dept">>

SameKey(r1, r2) ==
    \A k \in 1..Len(subset) :
        \/ isna(r1[subset[k]]) /\ isna(r2[subset[k]])
        \/ r1[subset[k]] = r2[subset[k]]

\* variant: keep="last", every row but the last of its group is marked
duplicated_keep_last(df) ==
    [i \in 1..len(df) |->
        Bool(\E j \in (i + 1)..len(df) : SameKey(df.rows[j], df.rows[i]))]

\* df.duplicated(subset=..., keep="first")
duplicated(df) ==
    [i \in 1..len(df) |-> Bool(\E j \in 1..(i - 1) : SameKey(df.rows[j], df.rows[i]))]

\* variant: drop_duplicates, the repeated rows are deleted
DropRepeated(cls, df) ==
    IF \E k \in 1..Len(subset) : ~HasCol(df, subset[k]) THEN KeyError
    ELSE LET d == Assign(df, "is_duplicate", [i \in 1..len(df) |-> Bool(FALSE)])
             dups == duplicated(d)
             RECURSIVE Kept(_)
             Kept(n) == IF n = 0 THEN <<>>
                        ELSE IF dups[n] = Bool(TRUE) THEN Kept(n - 1)
                        ELSE Append(Kept(n - 1), d.rows[n])
         IN  [d EXCEPT !.rows = Kept(len(d))]

_detect_duplicates(cls, df) ==
    IF \E k \in 1..Len(subset) : ~HasCol(df, subset[k]) THEN KeyError
    ELSE LET d == Assign(df, "is_duplicate",
                         [i \in 1..len(df) |-> Bool(FALSE)])
             dups == duplicated(d)
         IN  IF \E i \in 1..len(d) : dups[i] = Bool(TRUE)
             THEN Assign(d, "is_duplicate", dups)
             ELSE d

\* df["data_quality_flag"] of row i, as the rules so far have left it
flag_of(df, i) == df.rows[i]["data_quality_flag"]

\* df["emp_status"].shift(1) of row i: the row above, NaN for the first row
emp_status_above(df, i) ==
    IF i = 1 THEN NaN ELSE df.rows[i - 1]["emp_status"]

\* the row masks of the rules of _add_data_quality_flags, in rule order
mask_income_missing(df, i) ==
    isna(df.rows[i]["monthly_income"]) /\ flag_of(df, i) = Str(Normal)

\* variant: the key-fields rule overwrites the flag whatever it is
mask_key_fields_missing_ungated(df, i) ==
    isna(df.rows[i]["overall_satis"]) \/ isna(df.rows[i]["workload"])

mask_key_fields_missing(df, i) ==
    /\ isna(df.rows[i]["overall_satis"]) \/ isna(df.rows[i]["workload"])
    /\ flag_of(df, i) = Str(Normal)

\* variant: the student rule does not look at the row above
mask_logic_student_any_row(df, i) ==
    /\ df.rows[i]["emp_status"] = Str(NonEmployee)
    /\ lt(df.rows[i]["age"], 18)
    /\ flag_of(df, i) = Str(Normal)

mask_logic_student(df, i) ==
    /\ df.rows[i]["emp_status"] = Str(NonEmployee)
    /\ lt(df.rows[i]["age"], 18)
    /\ emp_status_above(df, i) # Str(NonEmployee)
    /\ flag_of(df, i) = Str(Normal)

\* variant: the retiree rule overwrites the flag whatever it is
mask_logic_retiree_ungated(df, i) ==
    /\ df.rows[i]["emp_status"] = Str(NonEmployee)
    /\ ge(df.rows[i]["age"], 60)
    /\ emp_status_above(df, i) # Str(NonEmployee)

mask_logic_retiree(df, i) ==
    /\ df.rows[i]["emp_status"] = Str(NonEmployee)
    /\ ge(df.rows[i]["age"], 60)
    /\ emp_status_above(df, i) # Str(NonEmployee)
    /\ flag_of(df, i) = Str(Normal)

\* variant: the anomaly rule only overwrites the flag of a row still normal
mask_anomaly_if_normal(df, i) ==
    /\ gt(df.rows[i]["age"], 70) \/ gt(df.rows[i]["workload"], 10)
    /\ flag_of(df, i) = Str(Normal)

\* variant: the anomaly rule looks at the age only
mask_anomaly_age_only(df, i) == gt(df.rows[i]["age"], 70)

mask_anomaly(df, i) ==
    gt(df.rows[i]["age"], 70) \/ gt(df.rows[i]["workload"], 10)

\* variant: the test-data rule only overwrites the flag of a row still normal
mask_test_data_if_normal(df, i) ==
    /\ df.rows[i]["dept"] = Str(TestDept)
    /\ flag_of(df, i) = Str(Normal)

mask_test_data(df, i) == df.rows[i]["dept"] = Str(TestDept)

\* variant: the duplicate rule only overwrites the flag of a row still normal
mask_duplicate_if_normal(df, i) ==
    /\ df.rows[i]["is_duplicate"] = Bool(TRUE)
    /\ flag_of(df, i) = Str(Normal)

mask_duplicate(df, i) == df.rows[i]["is_duplicate"] = Bool(TRUE)

\* the labels of the rules, in the order _add_data_quality_flags applies them
rule_labels == <<IncomeMissing, KeyFieldsMissing, LogicStudent, LogicRetiree,
                 Anomaly, TestData, DuplicateRecord>>

\* the mask of the k-th rule
mask(k, df, i) ==
    CASE k = 1 -> mask_income_missing(df, i)
      [] k = 2 -> mask_key_fields_missing(df, i)
      [] k = 3 -> mask_logic_student(df, i)
      [] k = 4 -> mask_logic_retiree(df, i)
      [] k = 5 -> mask_anomaly(df, i)
      [] k = 6 -> mask_test_data(df, i)
      [] k = 7 -> mask_duplicate(df, i)

\* df.loc[mask, "data_quality_flag"] = label, for the k-th rule
SetWhere(df, k) ==
    Assign(df, "data_quality_flag",
           [i \in 1..len(df) |->
               IF mask(k, df, i) THEN Str(rule_labels[k]) ELSE flag_of(df, i)])

\* the table after df["data_quality_flag"] = "正常" and the first k rules
RECURSIVE FlagsAfter(_, _)
FlagsAfter(df, k) ==
    IF k = 0
    THEN Assign(df, "data_quality_flag", [i \in 1..len(df) |-> Str(Normal)])
    ELSE SetWhere(FlagsAfter(df, k - 1), k)

_add_data_quality_flags(cls, df) ==
    IF \E c \in {"monthly_income", "overall_satis", "workload", "emp_status",
                 "age", "dept", "is_duplicate"} : ~HasCol(df, c)
    THEN KeyError
    ELSE FlagsAfter(df, Len(rule_labels))

\* [col for col in output_columns if col in df.columns]
RECURSIVE Existing(_, _)
Existing(df, wanted) ==
    IF Len(wanted) = 0 THEN <<>>
    ELSE IF HasCol(df, wanted[1]) THEN <<wanted[1]>> \o Existing(df, Tail(wanted))
    ELSE Existing(df, Tail(wanted))

\* variant: no projection, the working table is returned as it is
KeepAllColumns(cls, df) == df

_select_and_order_columns(cls, df) ==
    LET existing_columns == Existing(df, output_columns)
        keep == {existing_columns[k] : k \in 1..Len(existing_columns)}
    IN  DataFrame(existing_columns, Project(df.rows, keep))

\* the k-th stage of process, in the order process calls them
Stage(k, cls, df) ==
    CASE k = 1 -> _standardize_datetime(cls, df)
      [] k = 2 -> _standardize_id(cls, df)
      [] k = 3 -> _process_age(cls, df)
      [] k = 4 -> _process_total_exp(cls, df)
      [] k = 5 -> _process_satisfaction(cls, df)
      [] k = 6 -> _process_workload(cls, df)
      [] k = 7 -> _process_tenure(cls, df)
      [] k = 8 -> _process_monthly_income(cls, df)
      [] k = 9 -> _standardize_dept(cls, df)
      [] k = 10 -> _standardize_gender(cls, df)
      [] k = 11 -> _standardize_education(cls, df)
      [] k = 12 -> _standardize_emp_status(cls, df)
      [] k = 13 -> _standardize_city(cls, df)
      [] k = 14 -> _process_benefits(cls, df)
      [] k = 15 -> _process_other_notes(cls, df)
      [] k = 16 -> _detect_duplicates(cls, df)
      [] k = 17 -> _add_data_quality_flags(cls, df)
      [] k = 18 -> _select_and_order_columns(cls, df)

\* the table after the first k stages; a raised error ends the run
RECURSIVE After(_, _, _)
After(k, cls, raw) ==
    IF k = 0 THEN raw
    ELSE LET df == After(k - 1, cls, raw)
         IN  IF df.err THEN df ELSE Stage(k, cls, df)

\* QuestionnaireCleaner.process: the returned table, or the raised error
process(cls, raw) == After(18, cls, raw)

----------------------------------------------------------------------------
(* The table objects of a call of process.  A column assignment             *)
(* df[c] = ... writes into the object df names; df.copy(), df.drop(...) and *)
(* df[columns] build a new object.                                          *)

Object(id, table) == [id |-> id, table |-> table]

\* variant: no copy is made, the same object is used
same_object(obj) == obj

\* DataFrame.copy(): a new object that holds the same cells
copy(obj) == Object(obj.id + 1, obj.table)

\* self.raw_df = raw_df.copy()
self_raw_df(caller) == copy(caller)

\* df = self.raw_df.copy(): the object the stages are handed first
working(caller) == copy(self_raw_df(caller))

\* the stages of the factory cleaner that end in df = df.drop(columns=[...]):
\* the localized column dropped and the canonical column written before
drops ==
       (4 :> <<"gongzuonianxian", "total_exp">>)
    @@ (5 :> <<"manyidu", "overall_satis">>)
    @@ (7 :> <<"renqi", "tenure">>)
    @@ (8 :> <<"yueshouru", "monthly_income">>)
    @@ (9 :> <<"suoshubumen", "dept">>)
    @@ (10 :> <<"xingbie", "gender">>)
    @@ (11 :> <<"jiaoyuchengdu", "edu">>)
    @@ (12 :> <<"guyongzhuangtai", "emp_status">>)
    @@ (13 :> <<"chengshi", "city">>)
    @@ (15 :> <<"beizhu", "other_notes">>)

\* stage k, handed df, returns another object than df
Rebinds(k, cls, df) ==
    \/ k = 18
    \/ /\ cls = "factory"
       /\ k \in DOMAIN drops
       /\ ~HasCol(df, drops[k][2])
       /\ HasCol(df, drops[k][1])

\* the first rule of _add_data_quality_flags that reads a column df lacks
FirstRaisingRule(df) ==
    IF ~HasCol(df, "monthly_income") THEN 1
    ELSE IF ~HasCol(df, "overall_satis") \/ ~HasCol(df, "workload") THEN 2
    ELSE IF ~HasCol(df, "emp_status") \/ ~HasCol(df, "age") THEN 3
    ELSE IF ~HasCol(df, "dept") THEN 6
    ELSE 7

\* what stage k has written into df when it raises: the transformers raise
\* on their first read; _detect_duplicates and _add_data_quality_flags have
\* initialized their column, and the rules before the raising one are applied
WrittenBeforeRaise(k, cls, df) ==
    IF k = 16
    THEN Assign(df, "is_duplicate", [i \in 1..len(df) |-> Bool(FALSE)])
    ELSE IF k = 17 THEN FlagsAfter(df, FirstRaisingRule(df) - 1)
    ELSE df

\* the content of the object df after stage k ran on it
InPlace(k, cls, df) ==
    LET out == Stage(k, cls, df)
    IN  IF k = 18 THEN df
        ELSE IF out.err THEN WrittenBeforeRaise(k, cls, df)
        ELSE IF ~Rebinds(k, cls, df) THEN out
        ELSE IF k = 8
        THEN \* the negative incomes are set to None after the drop
             Assign(df, "monthly_income",
                    [i \in 1..len(df) |->
                        to_numeric(clean_income(Cell(df, i, "yueshouru")))])
        ELSE Assign(df, drops[k][2],
                    [i \in 1..len(df) |-> Cell(out, i, drops[k][2])])

\* the content of the object handed to stage 1, after the first k stages:
\* it is written until a stage raises or hands on another object
RECURSIVE Written(_, _, _)
Written(k, cls, raw) ==
    IF k = 0 THEN raw
    ELSE LET df == After(k - 1, cls, raw)
         IN  IF \/ df.err
                \/ \E j \in 1..(k - 1) : Rebinds(j, cls, After(j - 1, cls, raw))
             THEN Written(k - 1, cls, raw)
             ELSE InPlace(k, cls, df)

\* the content of the object o after process was handed the object caller
ContentAfter(cls, o, caller) ==
    IF o.id = working(caller).id
    THEN Written(18, cls, working(caller).table)
    ELSE o.table

----------------------------------------------------------------------------
(* The bounded set of raw tables the caller hands to process *)

\* the largest number of rows of a table built from a palette
MaxRows == 2

T_iso == Str(<<"2025", "-", "01", "-", "15", " ", "10:30:00">>)
T_slash == Str(<<"2025", "/", "01", "/", "15", " ", "10:30:00">>)
T_bad == Str(<<"invalid_datetime">>)

\* the twelve localized columns of the test fixtures
BaseCols == <<"tijiaoshijian", "nianling", "gongzuonianxian", "suoshubumen",
              "manyidu", "gongzuofuhe", "renqi", "yueshouru", "xingbie",
              "jiaoyuchengdu", "guyongzhuangtai", "chengshi">>

\* test_single_record's row (its tenure of 2.5 years written as 2: the numbers
\* of the model are integers)
BaseRow ==
       ("tijiaoshijian" :> T_iso)
    @@ ("nianling" :> Num(25))
    @@ ("gongzuonianxian" :> Num(3))
    @@ ("suoshubumen" :> Str(<<"cn_yanfabu">>))        \* "研发部"
    @@ ("manyidu" :> Num(5))
    @@ ("gongzuofuhe" :> Num(7))
    @@ ("renqi" :> Num(2))
    @@ ("yueshouru" :> Num(15000))
    @@ ("xingbie" :> Str(<<"cn_nan">>))                \* "男"
    @@ ("jiaoyuchengdu" :> Str(<<"cn_benke">>))        \* "本科"
    @@ ("guyongzhuangtai" :> Str(<<"cn_zaizhi">>))     \* "在职"
    @@ ("chengshi" :> Str(<<"cn_beijing">>))           \* "北京"

Student == Str(<<"cn_xuesheng">>)     \* "学生"
Retired == Str(<<"cn_tuixiu">>)       \* "退休"
Employed == Str(<<"cn_zaizhi">>)      \* "在职"
RnD == Str(<<"cn_yanfabu">>)          \* "研发部"

\* sequences over a palette of rows, of every length up to n
RECURSIVE SeqsUpTo(_, _)
SeqsUpTo(palette, n) ==
    IF n = 0 THEN {<<>>}
    ELSE LET shorter == SeqsUpTo(palette, n - 1)
         IN  shorter \cup {Append(q, r) : q \in {x \in shorter : Len(x) = n - 1},
                                           r \in palette}

Tables(cols, palette) == {DataFrame(cols, q) : q \in SeqsUpTo(palette, MaxRows)}

\* rows of one-row tables: every combination of the cells the quality
\* cascade reads
CascadeRows ==
    {  ("yueshouru" :> income) @@ ("manyidu" :> satis) @@ ("gongzuofuhe" :> load)
    @@ ("nianling" :> age) @@ ("guyongzhuangtai" :> emp) @@ ("suoshubumen" :> dept)
    @@ BaseRow :
        income \in {NaN, Num(-5000), Num(15000)},
        satis \in {NaN, Num(5)},
        load \in {NaN, Num(7), Num(15)},
        age \in {Num(15), Num(25), Num(65), Num(150)},
        emp \in {Employed, Student},
        dept \in {RnD, Str(TestDept)} }

\* rows of one-row tables: raw categorical values, mapped and unmapped
GenderRows ==
    {("xingbie" :> gender) @@ ("guyongzhuangtai" :> emp) @@ BaseRow :
        gender \in {None, Str(<<"cn_nan">>), Str(<<"cn_nv">>), Str(<<"cn_qita">>),
                    Str(<<"cn_weizhi">>), Str(<<"male">>), Str(<<"X">>)},
        emp \in {None, Employed, Retired, Str(NonEmployee), Str(<<"X">>)} }

EduRows ==
    {("jiaoyuchengdu" :> edu) @@ ("chengshi" :> city) @@ BaseRow :
        edu \in {None, Str(<<"cn_benke">>), Str(<<"MBA">>), Str(<<"X">>)},
        city \in {None, Str(<<"cn_shenzhen">>), Str(<<"Beijing">>), Str(<<"X">>)} }

\* rows of one-row tables: the thresholds of the logic and anomaly rules
BoundaryRows ==
    {("guyongzhuangtai" :> Student) @@ ("nianling" :> age)
     @@ ("gongzuofuhe" :> load) @@ BaseRow :
        age \in {Num(17), Num(18), Num(59), Num(60), Num(70), Num(71)},
        load \in {Num(10), Num(11)} }

\* rows of one-row tables: raw incomes, numbers and decorated texts
IncomeRows ==
    {("yueshouru" :> income) @@ BaseRow :
        income \in {None, NaN, Num(-5000), Num(0), Num(15000),
                    Str(<<"-", "5", "0", "0", "0">>),
                    Str(<<"1", "5", "0", "0", "0", "cn_yuan">>),   \* "15000元"
                    Str(<<"2", "0", "K">>),
                    Str(<<"cn_baomi">>),                           \* "保密"
                    Str(<<"-">>)} }

BenefitCols == <<"yanglaojin", "nianjia", "yiliao", "qitafuli">>

\* rows of one-row tables that carry the localized benefit columns
BenefitRows ==
    {  ("yanglaojin" :> pension) @@ ("nianjia" :> leave) @@ ("yiliao" :> Bool(TRUE))
    @@ ("qitafuli" :> other) @@ BaseRow :
        pension \in {Bool(TRUE), Bool(FALSE), None},
        leave \in {Bool(TRUE), Bool(FALSE)},
        other \in {Bool(FALSE), Str(<<"x">>)} }

\* palettes of the tables of several rows: raw keys that differ and keys
\* that the transformers make equal
KeyRows1 ==
         {("tijiaoshijian" :> time) @@ BaseRow :
             time \in {None, T_iso, T_slash, T_bad}}
    \cup {("suoshubumen" :> dept) @@ BaseRow : dept \in {None, Str(Other)}}

KeyRows2 ==
         {("nianling" :> age) @@ BaseRow :
             age \in {NaN, Num(25), Str(<<"2", "5">>), Num(30)}}
    \cup {("gongzuonianxian" :> NaN) @@ BaseRow}

AdjacentRows ==
    {("guyongzhuangtai" :> emp) @@ ("nianling" :> age) @@ BaseRow :
        emp \in {Employed, Student},
        age \in {Num(15), Num(25), Num(65)} }

FlaggedRows ==
    {  ("yueshouru" :> income) @@ ("suoshubumen" :> dept) @@ ("nianling" :> age)
    @@ BaseRow :
        income \in {NaN, Num(15000)},
        dept \in {RnD, Str(TestDept)},
        age \in {Num(25), Num(150)} }

DeptRows ==
    {("suoshubumen" :> dept) @@ BaseRow :
        dept \in {None, RnD, Str(<<"cn_caiwubu">>),                \* "财务部"
                  Str(<<"cn_guwen">>), Str(Other), Str(TestDept)} }  \* "顾问"

IdRows ==
    {("id" :> id) @@ BaseRow :
        id \in {None, Num(1), Num(2), Num(7), Str(<<"7">>), Str(<<"abc">>)} }

NotesRows ==
    {("beizhu" :> notes) @@ BaseRow :
        notes \in {None, Str(<<>>), Str(<<"a">>), Str(<<"b">>),
                   Str(<<"emdash">>)} }

\* a table without the income column, under either label
NoIncomeCols == SelectSeq2(BaseCols, "yueshouru")

NoIncomeRows == {[c \in (DOMAIN BaseRow) \ {"yueshouru"} |-> BaseRow[c]]}

\* tables that lack one field under both of its labels
LackingField(localized) ==
    Tables(SelectSeq2(BaseCols, localized),
           {[c \in (DOMAIN BaseRow) \ {localized} |-> BaseRow[c]]})

\* the one-row table of a row
OneRow(cols, palette) == {DataFrame(cols, <<r>>) : r \in palette}

Inputs ==
         OneRow(BaseCols, CascadeRows \cup GenderRows \cup EduRows
                          \cup BoundaryRows \cup IncomeRows)
    \cup OneRow(BaseCols \o BenefitCols, BenefitRows)
    \cup Tables(BaseCols, KeyRows1)
    \cup Tables(BaseCols, KeyRows2)
    \cup Tables(BaseCols, AdjacentRows)
    \cup Tables(BaseCols, FlaggedRows)
    \cup Tables(BaseCols, DeptRows)
    \cup Tables(BaseCols \o <<"id">>, IdRows)
    \cup Tables(BaseCols \o <<"beizhu">>, NotesRows)
    \cup Tables(NoIncomeCols, NoIncomeRows)
    \cup LackingField("renqi")
    \cup LackingField("xingbie")
    \cup LackingField("jiaoyuchengdu")
    \cup LackingField("chengshi")
    \cup LackingField("manyidu")
    \cup LackingField("gongzuonianxian")

----------------------------------------------------------------------------
(* The cleaner instance and its caller *)

\* no inspector call has returned anything yet
NoReport == [none |-> TRUE]

\* no inspector is constructed
NoInspector ==
    /\ self_plan_content = <<>>
    /\ self_field_definitions = <<>>
    /\ inspected = NoTable
    /\ report = NoReport
    /\ inspector_last = "none"

Init ==
    /\ impl \in {"blueprint", "factory"}
    /\ input \in Inputs
    /\ arg = NoTable
    /\ raw_df = NoTable
    /\ cleaned_df = NoTable
    /\ result = NoTable
    /\ last = "none"
    /\ file = NoTable
    /\ pipeline_raw_df = NoTable
    /\ pipeline_cleaned_df = NoTable
    /\ loads = 0
    /\ pipeline_last = "none"
    /\ NoInspector

\* cleaner.process(table): raw_df is set first; cleaned_df only on return
Call(table) ==
    LET caller == Object(0, table)
        out == process(impl, working(caller).table)
    IN  /\ arg' = table
        /\ raw_df' = ContentAfter(impl, self_raw_df(caller), caller)
        /\ cleaned_df' = IF out.err THEN cleaned_df ELSE out
        /\ result' = out
        /\ UNCHANGED impl

\* the caller cleans its raw table, and keeps the table object
Process ==
    /\ Call(input)
    /\ input' = ContentAfter(impl, Object(0, input), Object(0, input))
    /\ last' = "process"
    /\ UNCHANGED <<pipeline_vars, inspector_vars>>

\* the caller feeds the table the last call returned back into process
Reprocess ==
    /\ last # "none"
    /\ ~result.err
    /\ Call(result)
    /\ UNCHANGED input
    /\ last' = "reprocess"
    /\ UNCHANGED <<pipeline_vars, inspector_vars>>

Next == Process \/ Reprocess

Spec == Init /\ [][Next]_vars

----------------------------------------------------------------------------
(* QuestionnairePipeline: a cleaner instance, the file at dirty_csv_path,  *)
(* and the calls load_data, process and run in any order                   *)

\* the largest number of load_data calls of a run of the model
MaxLoads == 2

\* the tables the file can hold: zero to two rows of the twelve localized
\* columns, and tables without the tenure column
PipelineFiles == Tables(BaseCols, {BaseRow}) \cup LackingField("renqi")

\* __init__: a new cleaner, nothing loaded, nothing cleaned
PipelineInit ==
    /\ impl \in {"blueprint", "factory"}
    /\ input = NoTable
    /\ arg = NoTable
    /\ raw_df = NoTable
    /\ cleaned_df = NoTable
    /\ result = NoTable
    /\ last = "none"
    /\ file \in PipelineFiles
    /\ pipeline_raw_df = NoTable
    /\ pipeline_cleaned_df = NoTable
    /\ loads = 0
    /\ pipeline_last = "none"
    /\ NoInspector

\* the file is rewritten between two calls
FileChanges ==
    /\ \E f \in PipelineFiles : f # file /\ file' = f
    /\ pipeline_last' = "file"
    /\ UNCHANGED <<cleaner_vars, pipeline_raw_df, pipeline_cleaned_df, loads,
                   inspector_vars>>

\* load_data(): self.raw_df = pd.read_csv(self.dirty_csv_path)
load_data ==
    /\ loads < MaxLoads
    /\ pipeline_raw_df' = file
    /\ loads' = loads + 1
    /\ pipeline_last' = "load_data"
    /\ UNCHANGED <<cleaner_vars, file, pipeline_cleaned_df, inspector_vars>>

\* variant: process loads the file on every call
always(raw) == TRUE

\* process: if self.raw_df is None
is_None(raw) == raw = NoTable

\* process(): load_data() when nothing is loaded, then
\* self.cleaned_df = self.cleaner.process(self.raw_df)
pipeline_process ==
    LET load == is_None(pipeline_raw_df)
        loaded == IF load THEN file ELSE pipeline_raw_df
        out == process(impl, working(Object(0, loaded)).table)
    IN  /\ load => loads < MaxLoads
        /\ loads' = IF load THEN loads + 1 ELSE loads
        /\ Call(loaded)
        /\ last' = "process"
        /\ pipeline_raw_df' =
               ContentAfter(impl, Object(0, loaded), Object(0, loaded))
        /\ pipeline_cleaned_df' = IF out.err THEN pipeline_cleaned_df ELSE out
        /\ UNCHANGED <<input, file, inspector_vars>>

\* the caller calls process()
PipelineProcess ==
    /\ pipeline_process
    /\ pipeline_last' = IF result'.err THEN "raised" ELSE "process"

\* the caller calls run(): return self.process()
PipelineRun ==
    /\ pipeline_process
    /\ pipeline_last' = IF result'.err THEN "raised" ELSE "run"

PipelineNext == FileChanges \/ load_data \/ PipelineProcess \/ PipelineRun

PipelineSpec == PipelineInit /\ [][PipelineNext]_vars

----------------------------------------------------------------------------
(* QuestionnaireInspector: the contract document and its parser.  A line   *)
(* of the document is what the parser tests of it; a cell of a table row   *)
(* is a text, with these tokens besides digits and words:                  *)
(*                                                                         *)
(*   字段名 cn_ziduanming   原始来源 cn_yuanshilaiyuan   类型 cn_leixing     *)
(*   值标签/格式规范 cn_zhibiaoqian   缺失编码 cn_queshibianma              *)
(*   逻辑约束 cn_luojiyueshu   必填 cn_bitian   ≥ ge   ≤ le                 *)
(*   – endash   — emdash   ` backtick   (blank) " "                        *)

\* a line: '## 数据模型' in line, line.startswith('##'), '数据模型' in line,
\* line.strip().startswith('|'), [c.strip() for c in line.split('|')[1:-1]]
Line(marker, hashes, mentions, pipe, cells) ==
    [marker |-> marker, hashes |-> hashes, mentions |-> mentions,
     pipe |-> pipe, cells |-> cells]

\* s.strip()
RECURSIVE strip(_)
strip(w) ==
    IF Len(w) > 0 /\ w[1] = " " THEN strip(Tail(w))
    ELSE IF Len(w) > 0 /\ w[Len(w)] = " " THEN strip(SubSeq(w, 1, Len(w) - 1))
    ELSE w

\* the positions p of w where the regular expression `([^`]+)` matches: a
\* backtick, then at least one other token, then a backtick
BacktickMatches(w) ==
    {p \in 1..Len(w) :
        /\ w[p] = "backtick"
        /\ p + 1 <= Len(w) /\ w[p + 1] # "backtick"
        /\ \E q \in (p + 2)..Len(w) : w[q] = "backtick"}

Min(S) == CHOOSE x \in S : \A y \in S : x <= y

\* re.search(r'`([^`]+)`', cell).group(1).strip() if it matches, else
\* cell.strip()
field_name_of(cell) ==
    IF BacktickMatches(cell) = {} THEN strip(cell)
    ELSE LET p == Min(BacktickMatches(cell))
             q == Min({k \in (p + 2)..Len(cell) : cell[k] = "backtick"})
         IN  strip(SubSeq(cell, p + 1, q - 1))

\* row.get(header, '') if header in headers else '', row = dict(zip(headers,
\* cells)): of two equal headers the later one gives the value
row_get(headers, cells, header) ==
    LET at == {k \in 1..Len(headers) : headers[k] = header}
    IN  IF at = {} THEN <<>>
        ELSE cells[CHOOSE k \in at : \A j \in at : j <= k]

\* the type name: the first of binary, text, categorical the cell contains,
\* else the cell
type_normalized_of(type_value) ==
    LET t == strip(type_value)
        has(token) == \E k \in 1..Len(t) : t[k] = token
    IN  IF has("binary") THEN <<"binary">>
        ELSE IF has("text") THEN <<"text">>
        ELSE IF has("categorical") THEN <<"categorical">>
        ELSE t

\* int(s) succeeds: an optional sign and digits
IsIntLiteral(w) ==
    \/ AllDigits(w)
    \/ Len(w) > 1 /\ w[1] \in {"-", "+"} /\ AllDigits(Tail(w))

\* _parse_missing_code: the code, or None
_parse_missing_code(code_str) ==
    LET code == strip(StrRemove(code_str, "backtick"))
    IN  IF code = <<>> \/ code = <<"emdash">> THEN None
        ELSE IF ~IsIntLiteral(code) THEN None
        ELSE IF code[1] = "-" THEN Num(0 - NatVal(Tail(code)))
        ELSE IF code[1] = "+" THEN Num(NatVal(Tail(code)))
        ELSE Num(NatVal(code))

\* the digits of w from position p on: the group (\d+) of a match at p
RECURSIVE DigitsFrom(_, _)
DigitsFrom(w, p) ==
    IF p <= Len(w) /\ IsDigit(w[p]) THEN <<w[p]>> \o DigitsFrom(w, p + 1)
    ELSE <<>>

\* the positions where the token sign is followed by a digit: the matches
\* of the regular expressions ≥(\d+) and ≤(\d+)
SignMatches(w, sign) ==
    {p \in 1..Len(w) : w[p] = sign /\ p < Len(w) /\ IsDigit(w[p + 1])}

\* the positions where (\d+)[–-](\d+) matches: digits up to a dash that a
\* digit follows
RangeMatches(w) ==
    {p \in 1..Len(w) :
        /\ IsDigit(w[p])
        /\ LET d == p + Len(DigitsFrom(w, p))
           IN  /\ d < Len(w)
               /\ w[d] \in {"endash", "-"}
               /\ IsDigit(w[d + 1])}

EmptyDict == [k \in {} |-> 0]

\* _parse_constraints: the dict with the keys required, min, max it sets
_parse_constraints(constraint_str) ==
    LET w == constraint_str
        has(token) == \E k \in 1..Len(w) : w[k] = token
        required == IF has("cn_bitian") THEN ("required" :> TRUE) ELSE EmptyDict
        ge_min == IF has("ge") /\ SignMatches(w, "ge") # {}
                  THEN ("min" :> NatVal(DigitsFrom(w, Min(SignMatches(w, "ge")) + 1)))
                  ELSE EmptyDict
        le_max == IF has("le") /\ SignMatches(w, "le") # {}
                  THEN ("max" :> NatVal(DigitsFrom(w, Min(SignMatches(w, "le")) + 1)))
                  ELSE EmptyDict
        ranged == IF /\ has("endash") \/ (RangeMatches(w) # {} /\ ~has("le"))
                     /\ RangeMatches(w) # {}
                  THEN LET p == Min(RangeMatches(w))
                           first == DigitsFrom(w, p)
                           second == DigitsFrom(w, p + Len(first) + 1)
                       IN  ("min" :> NatVal(first)) @@ ("max" :> NatVal(second))
                  ELSE EmptyDict
    IN  ranged @@ le_max @@ ge_min @@ required

\* c.startswith('---') or c == '--------', for some cell c
is_separator(cells) ==
    \E k \in 1..Len(cells) :
        Len(cells[k]) >= 3 /\ \A j \in 1..3 : cells[k][j] = "-"

\* the descriptor of a data row
descriptor(headers, cells) ==
    [name |-> field_name_of(cells[1]),
     source |-> strip(row_get(headers, cells, <<"cn_yuanshilaiyuan">>)),
     type |-> type_normalized_of(row_get(headers, cells, <<"cn_leixing">>)),
     description |-> strip(row_get(headers, cells, <<"cn_zhibiaoqian">>)),
     missing_code |->
         _parse_missing_code(strip(row_get(headers, cells,
                                           <<"cn_queshibianma">>))),
     constraints |->
         _parse_constraints(strip(row_get(headers, cells,
                                          <<"cn_luojiyueshu">>)))]

\* plan_content.find('## 数据模型'): the first line that holds the marker, 0
\* (Python -1) when no line does
data_model_start(lines) ==
    IF \E k \in 1..Len(lines) : lines[k].marker
    THEN Min({k \in 1..Len(lines) : lines[k].marker})
    ELSE 0

\* the loop of _parse_field_definitions from line i on
RECURSIVE parse_from(_, _, _, _, _)
parse_from(lines, i, in_table, headers, fields) ==
    IF i > Len(lines) THEN fields
    ELSE
    LET line == lines[i]
        start == data_model_start(lines)
        skip == parse_from(lines, i + 1, in_table, headers, fields)
    IN  IF line.marker THEN skip
        ELSE IF line.hashes /\ start # 0 /\ i > start /\ ~line.mentions
        THEN fields
        ELSE IF ~line.pipe THEN skip
        ELSE IF \E k \in 1..Len(line.cells) : line.cells[k] = <<"cn_ziduanming">>
        THEN parse_from(lines, i + 1, TRUE, line.cells, fields)
        ELSE IF ~(in_table /\ Len(line.cells) = Len(headers)) THEN skip
        ELSE IF is_separator(line.cells) THEN skip
        ELSE IF field_name_of(line.cells[1]) = <<>> THEN skip
        ELSE parse_from(lines, i + 1, in_table, headers,
                        Append(fields, descriptor(headers, line.cells)))

_parse_field_definitions(plan_content) ==
    parse_from(plan_content, 1, FALSE, <<>>, <<>>)

----------------------------------------------------------------------------
(* QuestionnaireInspector: the three check groups and inspect.  An issue   *)
(* or a check entry is the kind of its message, the field names it names   *)
(* and the count it reports.  A field name is a text; it names the column  *)
(* whose label is its only token.                                          *)

Entry(kind, fields, count) == [kind |-> kind, fields |-> fields, count |-> count]

\* a TypeError raised by a comparison, in place of a result
Raised == [raised |-> "TypeError"]

IsRaised(r) == "raised" \in DOMAIN r

\* field['name'] in df.columns
in_columns(df, name) == Len(name) = 1 /\ HasCol(df, name[1])

\* the cells of df[name]
cells_of(df, name) == [i \in 1..len(df) |-> df.rows[i][name[1]]]

\* str(df[name].dtype): bool, int64, float64 (numbers with missing values),
\* else object; a column of no rows is object
dtype(df, name) ==
    LET col == cells_of(df, name)
        all(kinds) == \A i \in 1..len(df) : col[i].t \in kinds
    IN  IF len(df) = 0 THEN "object"
        ELSE IF all({"bool"}) THEN "bool"
        ELSE IF all({"num"}) THEN "int64"
        ELSE IF all({"num", "nan", "none"}) /\ ~all({"none"}) THEN "float64"
        ELSE "object"

\* the type issue of a field, if any
type_issue(df, field) ==
    IF ~in_columns(df, field.name) THEN <<>>
    ELSE LET dtype_str == dtype(df, field.name)
             int == dtype_str = "int64"
             float == dtype_str = "float64"
             notna_any == \E i \in 1..len(df) : ~isna(cells_of(df, field.name)[i])
         IN  IF field.type = <<"integer">> /\ ~int /\ notna_any
             THEN <<Entry("type_integer", {field.name}, 0)>>
             ELSE IF field.type = <<"float">> /\ ~float /\ ~int
             THEN <<Entry("type_float", {field.name}, 0)>>
             ELSE <<>>

\* the type issues of the fields, in field order
RECURSIVE type_issues(_, _)
type_issues(df, fields) ==
    IF Len(fields) = 0 THEN <<>>
    ELSE type_issue(df, fields[1]) \o type_issues(df, Tail(fields))

\* variant: the status is PASS whatever the issues
always_pass(issues) == "PASS"

status_of(issues) == IF issues = <<>> THEN "PASS" ELSE "FAIL"

\* _check_schema_compliance: the result has no checks member
_check_schema_compliance(field_definitions, df) ==
    LET expected_columns ==
            {field_definitions[k].name : k \in 1..Len(field_definitions)}
        actual_columns == {<<df.cols[k]>> : k \in 1..Len(df.cols)}
        missing_fields == expected_columns \ actual_columns
        extra_fields == actual_columns \ expected_columns
        issues ==
               (IF missing_fields # {}
                THEN <<Entry("missing", missing_fields, 0)>> ELSE <<>>)
            \o (IF extra_fields # {}
                THEN <<Entry("extra", extra_fields, 0)>> ELSE <<>>)
            \o type_issues(df, field_definitions)
    IN  [status |-> status_of(issues), issues |-> issues]

\* what a loop over the fields adds: issues, check entries, or a raise
Added(issues, checks) == [issues |-> issues, checks |-> checks, raised |-> FALSE]

Raises == [issues |-> <<>>, checks |-> <<>>, raised |-> TRUE]

\* series < k, series > k, series == k on one cell: the cell holds a
\* number (True is 1, False is 0); a missing value compares False, and a
\* text raises TypeError for < and >
is_number(c) == c.t \in {"num", "bool"}

\* the first loop of _check_data_quality on one field: required fields
required_check(df, field) ==
    IF ~("required" \in DOMAIN field.constraints) THEN Added(<<>>, <<>>)
    ELSE LET null_count ==
                 IF in_columns(df, field.name)
                 THEN Cardinality({i \in 1..len(df) :
                                      isna(cells_of(df, field.name)[i])})
                 ELSE 0
         IN  Added(IF null_count > 0
                   THEN <<Entry("required", {field.name}, null_count)>>
                   ELSE <<>>,
                   <<Entry("required", {field.name}, 0)>>)

\* the second loop on one field: the range of the values
range_check(df, field) ==
    IF ~(in_columns(df, field.name) /\ "min" \in DOMAIN field.constraints)
    THEN Added(<<>>, <<>>)
    ELSE IF \E i \in 1..len(df) : cells_of(df, field.name)[i].t = "str"
    THEN Raises
    ELSE
    LET col == cells_of(df, field.name)
        min_val == field.constraints["min"]
        below(i) == is_number(col[i]) /\ col[i].n < min_val
        above(i) == /\ "max" \in DOMAIN field.constraints
                    /\ is_number(col[i])
                    /\ col[i].n > field.constraints["max"]
        out_of_range == {i \in 1..len(df) : below(i) \/ above(i)}
        missing_code == field.missing_code
        kept == IF missing_code # None /\ out_of_range # {}
                THEN {i \in out_of_range :
                         ~(is_number(col[i])
                           /\ col[i].n = missing_code.n)}
                ELSE out_of_range
    IN  Added(IF Cardinality(kept) > 0
              THEN <<Entry("range", {field.name}, Cardinality(kept))>>
              ELSE <<>>,
              <<Entry("range", {field.name}, 0)>>)

\* the third loop on one field: the missing-value code, never an issue
missing_code_check(df, field) ==
    IF /\ in_columns(df, field.name)
       /\ field.missing_code # None /\ field.missing_code.n # 0
       /\ dtype(df, field.name) \in {"int64", "float64"}
    THEN Added(<<>>, <<Entry("missing_code", {field.name}, 0)>>)
    ELSE Added(<<>>, <<>>)

\* one loop over the fields: what it adds, a raise ending it
RECURSIVE field_loop(_, _, _)
field_loop(loop, df, fields) ==
    IF Len(fields) = 0 THEN Added(<<>>, <<>>)
    ELSE LET first == CASE loop = 1 -> required_check(df, fields[1])
                        [] loop = 2 -> range_check(df, fields[1])
                        [] loop = 3 -> missing_code_check(df, fields[1])
         IN  IF first.raised THEN Raises
             ELSE LET rest == field_loop(loop, df, Tail(fields))
                  IN  IF rest.raised THEN Raises
                      ELSE Added(first.issues \o rest.issues,
                                 first.checks \o rest.checks)

_check_data_quality(field_definitions, df) ==
    LET required == field_loop(1, df, field_definitions)
        ranges == field_loop(2, df, field_definitions)
        codes == field_loop(3, df, field_definitions)
        issues == required.issues \o ranges.issues
    IN  IF ranges.raised THEN Raised
        ELSE [status |-> status_of(issues),
              issues |-> issues,
              checks |-> required.checks \o ranges.checks \o codes.checks]

\* rule 1: a department other than 5 with a specification filled in
department_rule(df) ==
    IF ~(HasCol(df, "department") /\ HasCol(df, "other_dept_specify"))
    THEN Added(<<>>, <<>>)
    ELSE LET department(i) == df.rows[i]["department"]
             specify(i) == df.rows[i]["other_dept_specify"]
             invalid_rows ==
                 {i \in 1..len(df) :
                     /\ ~(is_number(department(i)) /\ department(i).n = 5)
                     /\ ~isna(specify(i))
                     /\ specify(i) # Str(<<>>)
                     /\ specify(i) # Str(<<"-", "9", "9">>)}
         IN  Added(IF Cardinality(invalid_rows) > 0
                   THEN <<Entry("department", {}, Cardinality(invalid_rows))>>
                   ELSE <<>>,
                   <<Entry("department", {}, 0)>>)

\* the missing_code of the first field named name, None without one
missing_code_of(field_definitions, name) ==
    LET named == {k \in 1..Len(field_definitions) :
                     field_definitions[k].name = <<name>>}
    IN  IF named = {} THEN None
        ELSE field_definitions[Min(named)].missing_code

\* rule 2 on satisfaction or workload: the values kept lie in 1..5
scale_rule(field_definitions, df, name) ==
    IF ~HasCol(df, name) THEN Added(<<>>, <<>>)
    ELSE
    LET col == cells_of(df, <<name>>)
        missing_code == missing_code_of(field_definitions, name)
        valid == {i \in 1..len(df) :
                    /\ ~isna(col[i])
                    /\ \/ missing_code = None
                       \/ ~(is_number(col[i])
                            /\ col[i].n = missing_code.n)}
        invalid == {i \in valid : col[i].n < 1 \/ col[i].n > 5}
    IN  IF \E i \in valid : col[i].t = "str" THEN Raises
        ELSE Added(IF Cardinality(invalid) > 0
                   THEN <<Entry(name, {}, Cardinality(invalid))>>
                   ELSE <<>>,
                   <<Entry(name, {}, 0)>>)

\* rule 3 on the columns from the k-th on: values other than 0 and 1 in a
\* column whose name starts with benefit_, of the column names of the model
RECURSIVE benefit_rule(_, _)
benefit_rule(df, k) ==
    IF k > Len(df.cols) THEN Added(<<>>, <<>>)
    ELSE LET col == df.cols[k]
             cells == cells_of(df, <<col>>)
             invalid_values ==
                 {i \in 1..len(df) :
                     ~(is_number(cells[i]) /\ cells[i].n \in {0, 1})}
             startswith_benefit ==
                 \E j \in 1..Len(benefit_cols) : benefit_cols[j][1] = col
             rest == benefit_rule(df, k + 1)
         IN  IF ~startswith_benefit THEN rest
             ELSE Added((IF Cardinality(invalid_values) > 0
                         THEN <<Entry(col, {}, Cardinality(invalid_values))>>
                         ELSE <<>>) \o rest.issues,
                        <<Entry(col, {}, 0)>> \o rest.checks)

_check_business_rules(field_definitions, df) ==
    LET rule1 == department_rule(df)
        satisfaction == scale_rule(field_definitions, df, "satisfaction")
        workload == scale_rule(field_definitions, df, "workload")
        rule3 == benefit_rule(df, 1)
        issues == rule1.issues \o satisfaction.issues \o workload.issues
                  \o rule3.issues
    IN  IF satisfaction.raised \/ workload.raised THEN Raised
        ELSE [status |-> status_of(issues),
              issues |-> issues,
              checks |-> rule1.checks \o satisfaction.checks
                         \o workload.checks \o rule3.checks]

\* variant: total_checks counts the check entries only, not the fields
inspect_counting_entries(field_definitions, cleaned_data) ==
    LET schema_compliance == _check_schema_compliance(field_definitions, cleaned_data)
        data_quality == _check_data_quality(field_definitions, cleaned_data)
        business_rules == _check_business_rules(field_definitions, cleaned_data)
        total_issues == Len(schema_compliance.issues)
                        + Len(data_quality.issues)
                        + Len(business_rules.issues)
    IN  IF IsRaised(data_quality) \/ IsRaised(business_rules) THEN Raised
        ELSE [schema_compliance |-> schema_compliance,
              data_quality |-> data_quality,
              business_rules |-> business_rules,
              summary |->
                  [total_checks |-> Len(data_quality.checks)
                                    + Len(business_rules.checks),
                   passed |-> total_issues = 0,
                   total_issues |-> total_issues]]

\* inspect: the three results and the summary, or the TypeError of a group
inspect(field_definitions, cleaned_data) ==
    LET schema_compliance == _check_schema_compliance(field_definitions, cleaned_data)
        data_quality == _check_data_quality(field_definitions, cleaned_data)
        business_rules == _check_business_rules(field_definitions, cleaned_data)
        total_issues == Len(schema_compliance.issues)
                        + Len(data_quality.issues)
                        + Len(business_rules.issues)
    IN  IF IsRaised(data_quality) \/ IsRaised(business_rules) THEN Raised
        ELSE [schema_compliance |-> schema_compliance,
              data_quality |-> data_quality,
              business_rules |-> business_rules,
              summary |->
                  [total_checks |-> Len(field_definitions)
                                    + Len(data_quality.checks)
                                    + Len(business_rules.checks),
                   passed |-> total_issues = 0,
                   total_issues |-> total_issues]]

----------------------------------------------------------------------------
(* The contract documents and the tables the inspector is run on *)

\* the largest number of data rows of a table of a document
MaxFields == 2

\* '## 数据模型', another heading ('## 清洗规则'), a line of prose
Heading == Line(TRUE, TRUE, TRUE, FALSE, <<>>)
OtherHeading == Line(FALSE, TRUE, FALSE, FALSE, <<>>)
Prose == Line(FALSE, FALSE, FALSE, FALSE, <<>>)

\* a pipe-delimited line of the given cells
Row(cells) == Line(FALSE, FALSE, FALSE, TRUE, cells)

\* | 字段名 | 类型 | 缺失编码 | 逻辑约束 | and the separator under it
HeaderRow ==
    Row(<< <<"cn_ziduanming">>, <<"cn_leixing">>, <<"cn_queshibianma">>,
           <<"cn_luojiyueshu">> >>)

SeparatorRow ==
    Row(<< <<"-", "-", "-">>, <<"-", "-", "-">>, <<"-", "-", "-">>,
           <<"-", "-", "-">> >>)

\* | `name` | type | code | constraint |
FieldRow(name, type, code, constraint) ==
    Row(<< <<"backtick", name, "backtick">>, <<type>>, code, constraint >>)

\* the data rows of the documents
FieldRows ==
    { FieldRow("satisfaction", "integer", <<"-", "9", "9">>,
               <<"cn_bitian", " ", "1", "endash", "5">>),
      FieldRow("monthly_income", "float", <<"-", "9", "9">>, <<"ge", "0">>),
      FieldRow("department", "integer", <<"emdash">>, <<>>),
      FieldRow("age", "integer", <<"0">>, <<"le", "5", "0">>) }

\* constraint cells that combine the tokens: ≤3 1–5, ≤3 1-5, ≥2 ≤4, ≥5 ≤3,
\* 5–1, 1-5, 必填 ≥2 1–5
ConstraintTexts ==
    { <<"le", "3", " ", "1", "endash", "5">>,
      <<"le", "3", " ", "1", "-", "5">>,
      <<"ge", "2", " ", "le", "4">>,
      <<"ge", "5", " ", "le", "3">>,
      <<"5", "endash", "1">>,
      <<"1", "-", "5">>,
      <<"cn_bitian", " ", "ge", "2", " ", "1", "endash", "5">> }

\* data rows of the satisfaction field with these constraint cells
ConstraintRows ==
    {FieldRow("satisfaction", "integer", <<"backtick", "-", "9", "9", "backtick">>,
              text) : text \in ConstraintTexts}

\* a row with a blank name cell, and a row one cell short
BlankRow == Row(<< <<" ">>, <<"integer">>, <<>>, <<>> >>)
ShortRow == Row(<< <<"age">>, <<"integer">>, <<>> >>)

\* up to MaxFields different data rows, in every order
FieldLists ==
    {q \in SeqsUpTo(FieldRows, MaxFields) :
        \A j, k \in 1..Len(q) : j # k => q[j] # q[k]}

TableOf(rows) == <<HeaderRow, SeparatorRow>> \o rows

\* a document whose '## 数据模型' section holds the table of the rows
Sectioned(rows) ==
    <<Prose, Heading>> \o TableOf(rows) \o <<OtherHeading, Prose>>

\* the documents: the section with a table; a table and no section; no
\* table; a table before the section or after the heading that ends it;
\* rows the parser skips; a repeated row; the constraint cells
Plans ==
         {Sectioned(rows) : rows \in FieldLists}
    \cup {<<Prose>> \o TableOf(<<r>>) : r \in FieldRows}
    \cup {<<Prose>>, <<Heading, Prose>>, <<Heading, HeaderRow, SeparatorRow>>}
    \cup {TableOf(<<r>>) \o Sectioned(<<>>) : r \in FieldRows}
    \cup {Sectioned(<<>>) \o TableOf(<<r>>) : r \in FieldRows}
    \cup {Sectioned(<<BlankRow, r, ShortRow>>) : r \in FieldRows}
    \cup {Sectioned(<<r, r>>) : r \in FieldRows}
    \cup {Sectioned(<<r>>) : r \in ConstraintRows}

\* the tables inspected: up to MaxRows rows of a few columns
InspectTables ==
         Tables(<<"satisfaction">>,
                {"satisfaction" :> c :
                    c \in {Num(3), Num(9), Num(-99), Str(<<"x">>)}})
    \cup Tables(<<"satisfaction", "monthly_income">>,
                {("satisfaction" :> Num(3)) @@ ("monthly_income" :> Num(100)),
                 ("satisfaction" :> Num(3)) @@ ("monthly_income" :> Num(-5)),
                 ("satisfaction" :> NaN) @@ ("monthly_income" :> Num(-99))})
    \cup Tables(<<"department", "other_dept_specify">>,
                {("department" :> Num(5)) @@ ("other_dept_specify" :> Str(<<"x">>)),
                 ("department" :> Num(1)) @@ ("other_dept_specify" :> Str(<<"x">>)),
                 ("department" :> Num(1)) @@ ("other_dept_specify" :> NaN)})
    \cup Tables(<<"benefit_other", "workload">>,
                {("benefit_other" :> Num(1)) @@ ("workload" :> Num(3)),
                 ("benefit_other" :> Num(2)) @@ ("workload" :> Str(<<"x">>))})
    \cup Tables(<<"age">>, {"age" :> c : c \in {Num(0), Num(60)}})
    \cup {DataFrame(<<>>, <<>>)}

----------------------------------------------------------------------------
(* The inspector instance and its caller *)

\* __init__: the document is read and parsed; the caller holds a table
InspectInit ==
    /\ impl = "blueprint"
    /\ input = NoTable
    /\ arg = NoTable
    /\ raw_df = NoTable
    /\ cleaned_df = NoTable
    /\ result = NoTable
    /\ last = "none"
    /\ file = NoTable
    /\ pipeline_raw_df = NoTable
    /\ pipeline_cleaned_df = NoTable
    /\ loads = 0
    /\ pipeline_last = "none"
    /\ self_plan_content \in Plans
    /\ self_field_definitions = _parse_field_definitions(self_plan_content)
    /\ inspected \in InspectTables
    /\ report = NoReport
    /\ inspector_last = "none"

\* a call on the caller's table: the instance is left as it is
InspectorCall(returned) ==
    /\ report' = returned
    /\ UNCHANGED <<cleaner_vars, pipeline_vars, self_plan_content,
                   self_field_definitions, inspected>>

Inspect ==
    /\ InspectorCall(inspect(self_field_definitions, inspected))
    /\ inspector_last' = "inspect"

validate_schema_compliance ==
    /\ InspectorCall(_check_schema_compliance(self_field_definitions, inspected))
    /\ inspector_last' = "validate_schema_compliance"

validate_data_quality ==
    /\ InspectorCall(_check_data_quality(self_field_definitions, inspected))
    /\ inspector_last' = "validate_data_quality"

validate_business_rules ==
    /\ InspectorCall(_check_business_rules(self_field_definitions, inspected))
    /\ inspector_last' = "validate_business_rules"

InspectNext ==
    \/ Inspect
    \/ validate_schema_compliance
    \/ validate_data_quality
    \/ validate_business_rules

InspectSpec == InspectInit /\ [][InspectNext]_vars

----------------------------------------------------------------------------
(* Properties of the tables process returns.  arg is the table handed to   *)
(* the last call and result what the call returned.                        *)

\* the last call returned a table
Returned == last # "none" /\ ~result.err

\* the cell of row i of the table handed in that a transformer reads: under
\* the localized label, or under the canonical one
RawCell(i, localized, canonical) ==
    arg.rows[i][IF HasCol(arg, localized) THEN localized ELSE canonical]

Range(f) == {f[k] : k \in DOMAIN f}

\* two cells are the same value, a missing value being equal to a missing one
SameCell(a, b) == (isna(a) /\ isna(b)) \/ a = b

\* the output columns whose cell depends on the cells of its own row only
RowLocalColumns ==
    {"submit_time", "age", "total_exp", "dept", "overall_satis", "workload",
     "benefit_pension", "benefit_annual_leave", "benefit_health_ins",
     "benefit_other", "other_notes", "gender", "edu", "emp_status", "tenure",
     "monthly_income", "city"}

\* what process returns for row i of the table handed in, cleaned on its own
Alone(i) == process(impl, DataFrame(arg.cols, <<arg.rows[i]>>))

\* C1: the table process returns has as many rows as the table handed in, in
\* the same order: row i of the output carries, in every column that is
\* computed row by row, what row i of the input gives when cleaned on its own
\* (no stage drops, adds or reorders rows).
C1_RowsPreserved ==
    Returned =>
        /\ len(result) = len(arg)
        /\ len(arg) > 1 =>
             \A i \in 1..len(arg) :
                 LET alone == Alone(i)
                 IN  \A c \in RowLocalColumns \cap Range(result.cols) :
                         SameCell(result.rows[i][c], alone.rows[1][c])

\* C1 witness: a table of two different rows, the second a repeat of the
\* first under the duplicate key, came back with both rows
C1_Witness ==
    /\ Returned
    /\ len(arg) = 2
    /\ len(result) = 2
    /\ arg.rows[1] # arg.rows[2]
    /\ result.rows[2]["is_duplicate"] = Bool(TRUE)

\* C2: when the table handed in has no id column, the id column returned is
\* exactly 1, 2, ..., n in input row order, and no id is null.
C2_SynthesizedId ==
    (Returned /\ ~HasCol(arg, "id")) =>
        /\ len(result) = len(arg)
        /\ \A i \in 1..len(arg) :
               /\ ~isna(result.rows[i]["id"])
               /\ result.rows[i]["id"] = Num(i)

\* C2 witness: a two-row table without id column came back with ids 1 and 2
C2_Witness ==
    /\ Returned
    /\ ~HasCol(arg, "id")
    /\ len(arg) = 2
    /\ result.rows[1]["id"] = Num(1)
    /\ result.rows[2]["id"] = Num(2)

\* C3 as stated: in every table returned, synthesized or supplied, the id of
\* the row at position i is the integer i and is never null.
C3_IdIsPosition ==
    Returned => \A i \in 1..len(result) : result.rows[i]["id"] = Num(i)

\* C3 amended: without an id column in the table handed in, the id of the row
\* at position i is the integer i; with one, the id is the supplied value read
\* as a number (a number or a numeral text gives that number) and is null when
\* the supplied value is missing or is no numeral, whatever the position.
C3_IdSynthesizedOrCoerced ==
    Returned =>
        \A i \in 1..len(result) :
            LET out == result.rows[i]["id"]
            IN  IF ~HasCol(arg, "id") THEN out = Num(i)
                ELSE LET supplied == arg.rows[i]["id"]
                     IN  CASE supplied.t = "num" -> out = supplied
                           [] supplied.t = "str" /\ IsNumeral(supplied.s) ->
                                  out = Num(NumeralValue(supplied.s))
                           [] OTHER -> isna(out)

\* C3 witness: supplied ids 7 and "abc" came back as 7 and null
C3_Witness ==
    /\ Returned
    /\ HasCol(arg, "id")
    /\ len(arg) = 2
    /\ arg.rows[1]["id"] = Num(7)
    /\ arg.rows[2]["id"] = Str(<<"abc">>)
    /\ result.rows[1]["id"] = Num(7)
    /\ isna(result.rows[2]["id"])

\* the number a raw cell is when it is a number or a plain numeral text
IsNumber(c) == c.t = "num" \/ (c.t = "str" /\ IsNumeral(c.s))
NumberOf(c) == IF c.t = "num" THEN c.n ELSE NumeralValue(c.s)

\* C4: monthly_income of every returned row is null or >= 0: a raw income
\* that is a negative number comes back null, a non-negative one comes back
\* as that same number.
C4_IncomeNeverNegative ==
    Returned =>
        \A i \in 1..len(result) :
            LET raw == RawCell(i, "yueshouru", "monthly_income")
                out == result.rows[i]["monthly_income"]
            IN  /\ isna(out) \/ (out.t = "num" /\ out.n >= 0)
                /\ (IsNumber(raw) /\ NumberOf(raw) < 0) => isna(out)
                /\ (IsNumber(raw) /\ NumberOf(raw) >= 0) =>
                       out = Num(NumberOf(raw))

\* C4 witness: a raw income of -5000 came back null
C4_Witness ==
    /\ Returned
    /\ \E i \in 1..len(result) :
           /\ RawCell(i, "yueshouru", "monthly_income") = Num(-5000)
           /\ isna(result.rows[i]["monthly_income"])

\* the keys of the lookup each cleaner applies to a raw gender and city
GenderKeys ==
    IF impl = "blueprint" THEN DOMAIN GENDER_MAPPING ELSE DOMAIN gender_mapping
CityKeys ==
    IF impl = "blueprint" THEN DOMAIN CITY_MAPPING ELSE DOMAIN city_mapping

Unmapped(c, keys) == ~isna(c) /\ ~(c.t = "str" /\ c.s \in keys)

\* C5: in every categorical column the output has, whatever the raw value, the
\* returned gender is one of male, female,
\* other, unknown, and edu, emp_status, city are values of EDU_MAPPING,
\* EMP_STATUS_MAPPING, CITY_MAPPING; a null or unmapped gender gives unknown,
\* an unmapped edu or emp_status gives the label "other", a null or unmapped
\* city gives the label "unknown city".
C5_CategoricalTotality ==
    Returned =>
        \A i \in 1..len(result) :
            LET row == result.rows[i]
                gender == RawCell(i, "xingbie", "gender")
                edu == RawCell(i, "jiaoyuchengdu", "edu")
                emp == RawCell(i, "guyongzhuangtai", "emp_status")
                city == RawCell(i, "chengshi", "city")
            IN  /\ HasCol(result, "gender") =>
                       /\ row["gender"] \in {Str(<<"male">>), Str(<<"female">>),
                                             Str(<<"other">>), Str(<<"unknown">>)}
                       /\ (isna(gender) \/ Unmapped(gender, GenderKeys)) =>
                              row["gender"] = Str(<<"unknown">>)
                /\ HasCol(result, "edu") =>
                       /\ row["edu"] \in {Str(v) : v \in Range(EDU_MAPPING)}
                       /\ Unmapped(edu, DOMAIN EDU_MAPPING) =>
                              row["edu"] = Str(Other)
                /\ row["emp_status"] \in {Str(v) : v \in Range(EMP_STATUS_MAPPING)}
                /\ Unmapped(emp, DOMAIN EMP_STATUS_MAPPING) =>
                       row["emp_status"] = Str(Other)
                /\ HasCol(result, "city") =>
                       /\ row["city"] \in {Str(v) : v \in Range(CITY_MAPPING)}
                       /\ (isna(city) \/ Unmapped(city, CityKeys)) =>
                              row["city"] = Str(UnknownCity)

\* C5 witness: a raw gender and a raw employment status that are keys of no
\* mapping came back as unknown and as the label "other"
C5_Witness ==
    /\ Returned
    /\ \E i \in 1..len(result) :
           /\ RawCell(i, "xingbie", "gender") = Str(<<"X">>)
           /\ RawCell(i, "guyongzhuangtai", "emp_status") = Str(<<"X">>)
           /\ result.rows[i]["gender"] = Str(<<"unknown">>)
           /\ result.rows[i]["emp_status"] = Str(Other)

C7_DuplicateIffEarlierSameKey ==
    Returned =>
        \A j \in 1..len(result) :
            /\ result.rows[j]["is_duplicate"] \in {Bool(TRUE), Bool(FALSE)}
            /\ result.rows[j]["is_duplicate"] = Bool(TRUE) <=>
                   \E i \in 1..(j - 1) :
                       \A c \in {"submit_time", "age", "total_exp", "dept"} :
                           SameCell(result.rows[i][c], result.rows[j][c])

\* C7 witness: two rows whose raw submit times are written differently and
\* clean to the same key: the first is not a duplicate, the second is
C7_Witness ==
    /\ Returned
    /\ len(arg) = 2
    /\ HasCol(arg, "tijiaoshijian")
    /\ arg.rows[1]["tijiaoshijian"] # arg.rows[2]["tijiaoshijian"]
    /\ result.rows[1]["is_duplicate"] = Bool(FALSE)
    /\ result.rows[2]["is_duplicate"] = Bool(TRUE)

\* C8: in a returned table a row has the flag "duplicate record" exactly when
\* its is_duplicate is true, whatever other rules the row satisfies.
C8_DuplicateFlagIffDuplicate ==
    Returned =>
        \A i \in 1..len(result) :
            result.rows[i]["is_duplicate"] = Bool(TRUE)
                <=> result.rows[i]["data_quality_flag"] = Str(DuplicateRecord)

\* C8 witness: a duplicate row of the test department with a missing income
\* and an age over 70 carries the flag "duplicate record"
C8_Witness ==
    /\ Returned
    /\ \E i \in 1..len(result) :
           /\ result.rows[i]["is_duplicate"] = Bool(TRUE)
           /\ isna(result.rows[i]["monthly_income"])
           /\ result.rows[i]["dept"] = Str(TestDept)
           /\ gt(result.rows[i]["age"], 70)
           /\ result.rows[i]["data_quality_flag"] = Str(DuplicateRecord)

\* C9: a returned row that is no duplicate, whose dept is not the test
\* department and whose age is over 70 or whose workload is over 10 has the
\* anomaly flag, whatever is missing and whatever logic check applies; and a
\* raw age over 70 or a raw workload over 10 is returned as the same number.
C9_AnomalyFlagged ==
    Returned =>
        \A i \in 1..len(result) :
            LET row == result.rows[i]
                age == RawCell(i, "nianling", "age")
                load == RawCell(i, "gongzuofuhe", "workload")
            IN  /\ ( /\ row["is_duplicate"] = Bool(FALSE)
                     /\ row["dept"] # Str(TestDept)
                     /\ gt(row["age"], 70) \/ gt(row["workload"], 10) )
                       => row["data_quality_flag"] = Str(Anomaly)
                /\ gt(age, 70) => row["age"] = age
                /\ gt(load, 10) => row["workload"] = load

\* C9 witness: a row of age 150 with a missing income, and a non-employee of
\* age 65 with workload 15, both carry the anomaly flag
C9_Witness ==
    /\ Returned
    /\ \E i \in 1..len(result) :
           /\ RawCell(i, "nianling", "age") = Num(150)
           /\ result.rows[i]["age"] = Num(150)
           /\ isna(result.rows[i]["monthly_income"])
           /\ result.rows[i]["emp_status"] = Str(NonEmployee)
           /\ result.rows[i]["data_quality_flag"] = Str(Anomaly)

\* C10 as stated: process applied to a table it returned gives back a table
\* equal to it on every canonical column, row by row.
C10_RoundTrip ==
    (last = "reprocess" /\ ~result.err) =>
        /\ result.cols = arg.cols
        /\ len(result) = len(arg)
        /\ \A i \in 1..len(arg) :
               \A k \in 1..Len(output_columns) :
                   SameCell(result.rows[i][output_columns[k]],
                            arg.rows[i][output_columns[k]])

\* the fields a cleaner may leave out of its output: label in the raw table,
\* canonical column
OptionalFields ==
    {<<"renqi", "tenure">>, <<"xingbie", "gender">>,
     <<"jiaoyuchengdu", "edu">>, <<"chengshi", "city">>}

\* C11 as stated: whenever process returns, the columns of the output are
\* exactly the 20 canonical columns in the fixed order.
C11_ExactlyCanonicalColumns ==
    Returned => result.cols = output_columns

\* C11, amended: whenever process returns, the columns of the output are the
\* canonical columns in the fixed order, without any other column, every row
\* carrying exactly these columns; the only canonical columns that can be
\* left out are tenure, gender, edu and city, each left out exactly when the
\* factory cleaner is handed a table that has the field under neither of its
\* labels; the blueprint cleaner always returns all 20, and a table of zero
\* rows with every field comes back with zero rows and all 20 columns.
C11_CanonicalColumnsInOrder ==
    Returned =>
        /\ result.cols = Existing(result, output_columns)
        /\ \A i \in 1..len(result) : DOMAIN result.rows[i] = Range(result.cols)
        /\ \A c \in Range(output_columns) :
               ~HasCol(result, c) <=>
                   /\ impl = "factory"
                   /\ \E f \in OptionalFields :
                          f[2] = c /\ ~HasCol(arg, f[1]) /\ ~HasCol(arg, f[2])
        /\ impl = "blueprint" => result.cols = output_columns

\* C11 witness: the factory cleaner, handed a table without the tenure field,
\* returned the other 19 canonical columns
C11_Witness ==
    /\ Returned
    /\ impl = "factory"
    /\ len(arg) = 2
    /\ HasCol(arg, "xingbie")
    /\ ~HasCol(arg, "renqi") /\ ~HasCol(arg, "tenure")
    /\ Len(result.cols) = 19
    /\ ~HasCol(result, "tenure")

\* C12 as stated: process is total; whatever columns and cells the table handed
\* in has, the call returns a table and never ends in an error.
C12_ProcessTotal ==
    last # "none" => ~result.err

\* the flag and the cells of row i of the returned table that the rules read
Flag(i) == result.rows[i]["data_quality_flag"]
IsDuplicate(i) == result.rows[i]["is_duplicate"] = Bool(TRUE)
IsTestDept(i) == result.rows[i]["dept"] = Str(TestDept)
Above(c, k) == IsNumber(c) /\ NumberOf(c) > k
Below(c, k) == IsNumber(c) /\ NumberOf(c) < k
IsAnomaly(i) ==
    Above(result.rows[i]["age"], 70) \/ Above(result.rows[i]["workload"], 10)

\* C19: every returned row that is no duplicate and whose dept is the test
\* department is flagged as test data, whatever the anomaly rule and the rules
\* 1-4 say of it; a test-department row carries another flag only when it is
\* a duplicate, and then the flag is the duplicate one.
C19_TestDataFlagged ==
    Returned =>
        \A i \in 1..len(result) :
            IsTestDept(i) =>
                Flag(i) = IF IsDuplicate(i) THEN Str(DuplicateRecord)
                          ELSE Str(TestData)

\* C19 witness: a test-department row that is no duplicate, has an age above
\* 70 and no income came back flagged as test data
C19_Witness ==
    /\ Returned
    /\ \E i \in 1..len(result) :
           /\ IsTestDept(i) /\ ~IsDuplicate(i) /\ IsAnomaly(i)
           /\ isna(result.rows[i]["monthly_income"])
           /\ Flag(i) = Str(TestData)

\* the conditions of the student and of the retiree rule on row i of the
\* returned table, the employment status of the row above it included
StudentCondition(i) ==
    /\ result.rows[i]["emp_status"] = Str(NonEmployee)
    /\ Below(result.rows[i]["age"], 18)
    /\ i > 1 => result.rows[i - 1]["emp_status"] # Str(NonEmployee)

RetireeCondition(i) ==
    /\ result.rows[i]["emp_status"] = Str(NonEmployee)
    /\ Above(result.rows[i]["age"], 59)
    /\ i > 1 => result.rows[i - 1]["emp_status"] # Str(NonEmployee)

\* C20: among the rules 1-4 the earliest matching one wins: a returned row
\* that is no duplicate, no test-department row and no anomaly is flagged
\* income missing when monthly_income is null; else key fields missing when
\* overall_satis or workload is null; else with the student or the retiree
\* logic flag when that rule's condition holds; else normal.
C20_EarliestRuleWins ==
    Returned =>
        \A i \in 1..len(result) :
            (~IsDuplicate(i) /\ ~IsTestDept(i) /\ ~IsAnomaly(i)) =>
                Flag(i) =
                    IF isna(result.rows[i]["monthly_income"])
                    THEN Str(IncomeMissing)
                    ELSE IF \/ isna(result.rows[i]["overall_satis"])
                            \/ isna(result.rows[i]["workload"])
                    THEN Str(KeyFieldsMissing)
                    ELSE IF StudentCondition(i) THEN Str(LogicStudent)
                    ELSE IF RetireeCondition(i) THEN Str(LogicRetiree)
                    ELSE Str(Normal)

\* C20 witness: a row with neither income nor satisfaction, no duplicate, no
\* test-department row and no anomaly, came back flagged income missing
C20_Witness ==
    /\ Returned
    /\ \E i \in 1..len(result) :
           /\ ~IsDuplicate(i) /\ ~IsTestDept(i) /\ ~IsAnomaly(i)
           /\ isna(result.rows[i]["monthly_income"])
           /\ isna(result.rows[i]["overall_satis"])
           /\ Flag(i) = Str(IncomeMissing)

\* C13: process works on its own copy: after process(raw) the caller's table
\* has the columns and the cells it had before the call, the instance holds a
\* copy with the same cells, and the call returns what a new cleaner returns
\* for the same table, whatever calls the instance served before.
C13_OwnCopy ==
    /\ last = "process" => input = arg
    /\ last # "none" =>
           /\ raw_df = arg
           /\ result = process(impl, arg)

\* C13 witness: the second call of an instance returned a table with
\* columns the caller's table, still as it was, does not have
C13_Witness ==
    /\ last = "reprocess"
    /\ Returned
    /\ len(input) = 2
    /\ ~HasCol(input, "submit_time")
    /\ HasCol(result, "submit_time")
    /\ raw_df # input

\* the last pipeline call was process or run and it returned
PipelineReturned == pipeline_last \in {"process", "run"}

\* C18, the states: after a process or run call, returned or raised, the
\* cleaner was handed the loaded table, never an unloaded one; after a call
\* that returned, cleaned_df is the table the call returned and has as many
\* rows as raw_df.
C18_AfterCall ==
    /\ pipeline_last \in {"process", "run", "raised"} =>
           /\ pipeline_raw_df # NoTable
           /\ arg = pipeline_raw_df
    /\ PipelineReturned =>
           /\ pipeline_cleaned_df # NoTable
           /\ ~pipeline_cleaned_df.err
           /\ pipeline_cleaned_df = result
           /\ len(pipeline_cleaned_df) = len(pipeline_raw_df)

\* C18, the steps: a process or run call calls load_data exactly when raw_df
\* is still None, and then raw_df is what the file holds; otherwise it loads
\* nothing and raw_df, whatever the file holds by now, is left as it was.
C18_LoadsWhenUnloaded ==
    (pipeline_last' \in {"process", "run", "raised"}) =>
        IF pipeline_raw_df = NoTable
        THEN loads' = loads + 1 /\ pipeline_raw_df' = file
        ELSE loads' = loads /\ pipeline_raw_df' = pipeline_raw_df

\* C18: in every sequence of load_data, process and run calls, cleaning never
\* runs on unloaded data, process loads exactly when raw_df is still None and
\* does not reload otherwise, and after a process or run call returns
\* cleaned_df is non-null, is the table the call returned, has as many rows
\* as raw_df, and raw_df is left unchanged by the cleaning.
C18_Pipeline == [](C18_AfterCall) /\ [][C18_LoadsWhenUnloaded]_vars

\* C18 witness: run returned after the file was loaded once and then
\* rewritten with a table of another length: raw_df and cleaned_df are the
\* loaded table and its cleaning, not the file's
C18_Witness ==
    /\ pipeline_last = "run"
    /\ loads = 1
    /\ len(pipeline_raw_df) = 2
    /\ len(file) = 1
    /\ len(pipeline_cleaned_df) = 2
    /\ pipeline_cleaned_df = cleaned_df

----------------------------------------------------------------------------
(* Properties of the inspector *)

\* the last inspector call was inspect and it returned
Inspected == inspector_last = "inspect" /\ ~IsRaised(report)

\* C14: in the summary of every result inspect returns, total_issues is the
\* sum of the numbers of issues of the schema, data-quality and business-rule
\* groups, passed is true exactly when total_issues is 0, and total_checks is
\* the number of field descriptors plus the number of data-quality check
\* entries plus the number of business-rule check entries.
C14_Summary ==
    Inspected =>
        /\ report.summary.total_issues =
               Len(report.schema_compliance.issues)
               + Len(report.data_quality.issues)
               + Len(report.business_rules.issues)
        /\ report.summary.passed <=> report.summary.total_issues = 0
        /\ report.summary.total_checks =
               Len(self_field_definitions)
               + Len(report.data_quality.checks)
               + Len(report.business_rules.checks)

\* C14 witness: inspect returned a summary of two descriptors, issues in all
\* three groups and check entries in both groups that have them
C14_Witness ==
    /\ Inspected
    /\ Len(self_field_definitions) = 2
    /\ Len(report.schema_compliance.issues) > 0
    /\ Len(report.data_quality.issues) > 0
    /\ Len(report.business_rules.issues) > 0
    /\ Len(report.data_quality.checks) > 1
    /\ Len(report.business_rules.checks) > 0
    /\ ~report.summary.passed

\* C15: each of the three groups of a result inspect returns carries the
\* three members status, issues and checks, with status PASS or FAIL.
C15_ThreeMembers ==
    Inspected =>
        \A group \in {"schema_compliance", "data_quality", "business_rules"} :
            /\ DOMAIN report[group] = {"status", "issues", "checks"}
            /\ report[group].status \in {"PASS", "FAIL"}

\* no line of the document holds the heading of the data model section
NoSection ==
    \A k \in 1..Len(self_plan_content) : ~self_plan_content[k].marker

\* the section of the document holds no data row of a table
NoTableInSection ==
    \A k \in 1..Len(self_plan_content) :
        LET line == self_plan_content[k]
            start == data_model_start(self_plan_content)
            end == {j \in (start + 1)..Len(self_plan_content) :
                       self_plan_content[j].hashes}
        IN  (line.pipe /\ k > start /\ (end = {} \/ k < Min(end))) =>
                line \in {HeaderRow, SeparatorRow}

\* C16: a document without the data model section, or whose section holds
\* no well-formed table, gives an empty descriptor list, whatever other
\* tables, with a field-name header or not, the document contains.
C16_EmptyWithoutSection ==
    (NoSection \/ (~NoSection /\ NoTableInSection)) =>
        self_field_definitions = <<>>

\* the names of the issues of a kind that the last call reported
Reported(kind) ==
    {report.issues[k].fields : k \in
        {j \in 1..Len(report.issues) : report.issues[j].kind = kind}}

ExpectedNames ==
    {self_field_definitions[k].name : k \in 1..Len(self_field_definitions)}

ActualNames == {<<inspected.cols[k]>> : k \in 1..Len(inspected.cols)}

\* C17, the set differences: validate_schema_compliance reports a missing
\* issue exactly when an expected name is not a column, naming those names,
\* and an extra issue exactly when a column is not an expected name, naming
\* those columns; with no descriptors and at least one column the result is
\* FAIL with the one issue that names every column as extra.
C17_SetDifferences ==
    inspector_last = "validate_schema_compliance" =>
        /\ Reported("missing") =
               IF ExpectedNames \subseteq ActualNames THEN {}
               ELSE {ExpectedNames \ ActualNames}
        /\ Reported("extra") =
               IF ActualNames \subseteq ExpectedNames THEN {}
               ELSE {ActualNames \ ExpectedNames}
        /\ (self_field_definitions = <<>> /\ Len(inspected.cols) > 0) =>
               /\ report.status = "FAIL"
               /\ report.issues = <<Entry("extra", ActualNames, 0)>>

\* the table the caller has inspected has a schema defect
SchemaDefect ==
    _check_schema_compliance(self_field_definitions, inspected).issues # <<>>

\* C17, the last clause: on a table with a schema defect inspect still
\* returns, with the results of all three groups.
C17_DefectNeverHalts ==
    (inspector_last = "inspect" /\ SchemaDefect) =>
        /\ ~IsRaised(report)
        /\ {"schema_compliance", "data_quality", "business_rules"}
               \subseteq DOMAIN report

\* C17: validate_schema_compliance reports the set differences of the
\* expected names and the columns, and a schema defect never stops the other
\* fields or the other two groups from being evaluated.
C17_SchemaCompliance == C17_SetDifferences /\ C17_DefectNeverHalts

\* the condition of the k-th rule on row i of the returned table, without
\* the test of the flag the rules before it left
RuleCondition(k, i) ==
    CASE k = 1 -> isna(result.rows[i]["monthly_income"])
      [] k = 2 -> \/ isna(result.rows[i]["overall_satis"])
                  \/ isna(result.rows[i]["workload"])
      [] k = 3 -> StudentCondition(i)
      [] k = 4 -> RetireeCondition(i)
      [] k = 5 -> IsAnomaly(i)
      [] k = 6 -> IsTestDept(i)
      [] k = 7 -> IsDuplicate(i)

\* an ordered-rule evaluator: the label of the first rule of the order
\* whose condition holds on row i, normal when none holds
RECURSIVE FirstMatch(_, _)
FirstMatch(order, i) ==
    IF Len(order) = 0 THEN Str(Normal)
    ELSE IF RuleCondition(order[1], i) THEN Str(rule_labels[order[1]])
    ELSE FirstMatch(Tail(order), i)

\* C21 as stated: the cascade gives every row of every returned table the
\* flag of the evaluator that checks the rules in descending order 7, 6, 5,
\* 4, 3, 2, 1.
C21_DescendingOrder ==
    Returned =>
        \A i \in 1..len(result) :
            Flag(i) = FirstMatch(<<7, 6, 5, 4, 3, 2, 1>>, i)

\* C21: the cascade gives every row of every returned table the flag of the
\* evaluator that checks the overwriting rules in descending order 7, 6, 5
\* and then the gated rules in ascending order 1, 2, 3, 4.
C21_CascadeOrder ==
    Returned =>
        \A i \in 1..len(result) :
            Flag(i) = FirstMatch(<<7, 6, 5, 1, 2, 3, 4>>, i)

\* C21 witness: a row without income that meets the retiree condition and
\* no overwriting rule came back flagged income missing
C21_Witness ==
    /\ Returned
    /\ \E i \in 1..len(result) :
           /\ ~IsDuplicate(i) /\ ~IsTestDept(i) /\ ~IsAnomaly(i)
           /\ isna(result.rows[i]["monthly_income"])
           /\ RetireeCondition(i)
           /\ Flag(i) = Str(IncomeMissing)

\* row i of the returned table is a non-employee with income, satisfaction
\* and workload present, a workload of at most 10, a department other than
\* the test one, and is no duplicate
PlainNonEmployee(i) ==
    /\ result.rows[i]["emp_status"] = Str(NonEmployee)
    /\ ~isna(result.rows[i]["monthly_income"])
    /\ ~isna(result.rows[i]["overall_satis"])
    /\ ~isna(result.rows[i]["workload"])
    /\ ~Above(result.rows[i]["workload"], 10)
    /\ ~IsTestDept(i)
    /\ ~IsDuplicate(i)

\* the row above row i is a non-employee; the first row has no row above
NonEmployeeAbove(i) ==
    i > 1 /\ result.rows[i - 1]["emp_status"] = Str(NonEmployee)

\* the table with its first two rows swapped
Swapped(df) ==
    DataFrame(df.cols, <<df.rows[2], df.rows[1]>> \o SubSeq(df.rows, 3, len(df)))

\* C22: a non-employee row under 18 that no other rule touches is flagged as
\* student exactly when the row above it is not a non-employee (the first
\* row has none), and stays normal below a non-employee; the same holds of
\* the retiree flag for ages 60 to 70.
C22_Adjacency ==
    Returned =>
        \A i \in 1..len(result) :
            LET age == result.rows[i]["age"]
            IN  /\ (PlainNonEmployee(i) /\ Below(age, 18)) =>
                       Flag(i) = IF NonEmployeeAbove(i) THEN Str(Normal)
                                 ELSE Str(LogicStudent)
                /\ (PlainNonEmployee(i) /\ Above(age, 59) /\ ~Above(age, 70)) =>
                       Flag(i) = IF NonEmployeeAbove(i) THEN Str(Normal)
                                 ELSE Str(LogicRetiree)

\* C22 witness: of two non-employee rows, one under 18 and one of 60 to 70,
\* the first is flagged and the second is normal, and with the two rows of
\* the input swapped the flags of the two rows change
C22_Witness ==
    /\ Returned
    /\ last = "process"
    /\ len(result) = 2
    /\ PlainNonEmployee(1) /\ PlainNonEmployee(2)
    /\ Above(result.rows[1]["age"], 59) /\ Below(result.rows[2]["age"], 18)
    /\ Flag(1) = Str(LogicRetiree)
    /\ Flag(2) = Str(Normal)
    /\ LET swapped == process(impl, Swapped(arg))
       IN  /\ swapped.rows[1]["age"] = result.rows[2]["age"]
           /\ swapped.rows[1]["data_quality_flag"] = Str(LogicStudent)
           /\ swapped.rows[2]["data_quality_flag"] = Str(Normal)

\* the lines of the data model section: after the first heading of the
\* section, before the next heading
InSection(k) ==
    LET start == data_model_start(self_plan_content)
        later == {j \in (start + 1)..Len(self_plan_content) :
                     self_plan_content[j].hashes}
    IN  /\ start # 0
        /\ k > start
        /\ later = {} \/ k < Min(later)

\* the names in the data rows of the lines from the k-th on that lie in the
\* section: a data row has as many cells as the header and a name
RECURSIVE SectionNames(_)
SectionNames(k) ==
    IF k > Len(self_plan_content) THEN <<>>
    ELSE IF InSection(k) /\ self_plan_content[k] \in FieldRows \cup ConstraintRows
    THEN <<field_name_of(self_plan_content[k].cells[1])>> \o SectionNames(k + 1)
    ELSE SectionNames(k + 1)

\* C23: the descriptors are those of the data rows inside the data model
\* section, one for each, in document order; table rows before the heading
\* of the section or after the heading that ends it, separator rows, rows
\* without a name and rows of another cell count give none.
C23_OnlyInsideSection ==
    /\ Len(self_field_definitions) = Len(SectionNames(1))
    /\ \A k \in 1..Len(self_field_definitions) :
           self_field_definitions[k].name = SectionNames(1)[k]

\* the data rows the loop of the parser reaches, from the k-th line on: those
\* before the heading that ends the section, all of them without a section
RECURSIVE ParsedRows(_)
ParsedRows(k) ==
    LET start == data_model_start(self_plan_content)
        later == {j \in (start + 1)..Len(self_plan_content) :
                     self_plan_content[j].hashes /\ ~self_plan_content[j].marker}
        reached == start = 0 \/ later = {} \/ k < Min(later)
    IN  IF k > Len(self_plan_content) THEN <<>>
        ELSE IF reached /\ self_plan_content[k] \in FieldRows \cup ConstraintRows
        THEN <<self_plan_content[k]>> \o ParsedRows(k + 1)
        ELSE ParsedRows(k + 1)

\* the descriptors are those of the data rows reached, in document order
DescriptorsOfParsedRows ==
    Len(self_field_definitions) = Len(ParsedRows(1))

\* the constraint cell of the row of the j-th descriptor
ConstraintText(j) == ParsedRows(1)[j].cells[4]

\* the number after the first token sign that a digit follows
NumberAfter(w, sign) == NatVal(DigitsFrom(w, Min(SignMatches(w, sign)) + 1))

\* C24: a range token is applied only when the constraint text has no ≤
\* token: with a ≤N token the max is N, and the min is the N' of a ≥N' token
\* if there is one and absent otherwise, whatever range token the text has;
\* without a ≤ token a range token gives both; required is set exactly when
\* the text has the required marker.
C24_RangeOnlyWithoutMax ==
    /\ DescriptorsOfParsedRows
    /\ \A j \in 1..Len(self_field_definitions) :
           LET w == ConstraintText(j)
               constraints == self_field_definitions[j].constraints
               has(token) == \E k \in 1..Len(w) : w[k] = token
           IN  /\ SignMatches(w, "le") # {} =>
                      /\ "max" \in DOMAIN constraints
                      /\ constraints["max"] = NumberAfter(w, "le")
                      /\ IF SignMatches(w, "ge") # {}
                         THEN /\ "min" \in DOMAIN constraints
                              /\ constraints["min"] = NumberAfter(w, "ge")
                         ELSE ~("min" \in DOMAIN constraints)
               /\ (~has("le") /\ RangeMatches(w) # {}) =>
                      {"min", "max"} \subseteq DOMAIN constraints
               /\ "required" \in DOMAIN constraints <=> has("cn_bitian")

\* C25: in every descriptor whose constraints have both min and max, min is
\* at most max.
C25_MinAtMostMax ==
    \A j \in 1..Len(self_field_definitions) :
        LET constraints == self_field_definitions[j].constraints
        IN  {"min", "max"} \subseteq DOMAIN constraints =>
                constraints["min"] <= constraints["max"]

\* C26: no two descriptors of the list have the same name.
C26_UniqueNames ==
    \A j, k \in 1..Len(self_field_definitions) :
        j # k => self_field_definitions[j].name # self_field_definitions[k].name

\* the entries of a kind that name the field, in a list of issues or checks
EntriesOf(entries, kind, name) ==
    {k \in 1..Len(entries) : entries[k].kind = kind /\ entries[k].fields = {name}}

\* the rows of the inspected table whose value of the field is a number
\* other than the missing code of the field and lies outside its range
OutOfRange(field) ==
    {i \in 1..len(inspected) :
        LET c == inspected.rows[i][field.name[1]]
            constraints == field.constraints
        IN  /\ c.t \in {"num", "bool"}
            /\ field.missing_code = None \/ c.n # field.missing_code.n
            /\ \/ "min" \in DOMAIN constraints /\ c.n < constraints["min"]
               \/ "max" \in DOMAIN constraints /\ c.n > constraints["max"]}

\* the last call was validate_data_quality
ValidatedQuality == inspector_last = "validate_data_quality"

\* C27: after validate_data_quality, for every descriptor with a min or a
\* max whose column is in the table there is one range check entry, and one
\* range issue exactly when a value other than the missing code lies outside
\* the range, null values not counted.
C27_RangeCheck ==
    (ValidatedQuality /\ ~IsRaised(report)) =>
        \A j \in 1..Len(self_field_definitions) :
            LET field == self_field_definitions[j]
                named == {k \in 1..Len(self_field_definitions) :
                             self_field_definitions[k].name = field.name}
            IN  (/\ DOMAIN field.constraints \cap {"min", "max"} # {}
                 /\ in_columns(inspected, field.name)) =>
                    /\ Cardinality(EntriesOf(report.checks, "range", field.name))
                           = Cardinality(named)
                    /\ EntriesOf(report.issues, "range", field.name) # {}
                           <=> OutOfRange(field) # {}

\* C28: after validate_data_quality, for every descriptor with a missing
\* code, 0 included, whose column is in the table, of whatever type, there
\* is a missing-code check entry for the field, and no missing-code issue.
C28_MissingCodeCheck ==
    (ValidatedQuality /\ ~IsRaised(report)) =>
        \A j \in 1..Len(self_field_definitions) :
            LET field == self_field_definitions[j]
            IN  /\ (field.missing_code # None /\ in_columns(inspected, field.name))
                       => EntriesOf(report.checks, "missing_code", field.name) # {}
                /\ EntriesOf(report.issues, "missing_code", field.name) = {}

\* the status of a group result is PASS exactly when it has no issue
StatusMatchesIssues(group) ==
    /\ group.status \in {"PASS", "FAIL"}
    /\ group.status = "PASS" <=> group.issues = <<>>

\* C29, the states: in every result of a validate method and in every group
\* of a result of inspect the status is PASS exactly when the issues are
\* empty, and passed is true exactly when all three groups are PASS.
C29_StatusOfResults ==
    /\ (/\ inspector_last \in {"validate_schema_compliance",
                               "validate_data_quality",
                               "validate_business_rules"}
        /\ ~IsRaised(report)) => StatusMatchesIssues(report)
    /\ Inspected =>
           /\ StatusMatchesIssues(report.schema_compliance)
           /\ StatusMatchesIssues(report.data_quality)
           /\ StatusMatchesIssues(report.business_rules)
           /\ report.summary.passed <=>
                  /\ report.schema_compliance.status = "PASS"
                  /\ report.data_quality.status = "PASS"
                  /\ report.business_rules.status = "PASS"

\* C29, the steps: a call leaves the field definitions and the inspected
\* table as they were, and inspect called again on the table returns or
\* raises what the call before it did.
C29_InspectKeeps ==
    /\ self_field_definitions' = self_field_definitions
    /\ inspected' = inspected
    /\ (inspector_last = "inspect" /\ inspector_last' = "inspect") =>
           report' = report

\* C29: a status is PASS exactly when the issues of its group are empty,
\* passed is true exactly when the three groups are PASS, and inspect leaves
\* the field definitions and the table unchanged, so that two inspect calls
\* on the same table return equal results.
C29_StatusAndIdempotence == [](C29_StatusOfResults) /\ [][C29_InspectKeeps]_vars

\* C29 witness: inspect returned a result with a failing schema group and
\* passing data-quality and business-rule groups, on a table of two rows
C29_Witness ==
    /\ Inspected
    /\ len(inspected) = 2
    /\ Len(self_field_definitions) > 0
    /\ report.schema_compliance.status = "FAIL"
    /\ report.data_quality.status = "PASS"
    /\ report.business_rules.status = "PASS"
    /\ Len(report.data_quality.checks) > 0
    /\ ~report.summary.passed

\* the eight labels of data_quality_flag
FlagLabels ==
    {Str(Normal), Str(IncomeMissing), Str(KeyFieldsMissing), Str(LogicStudent),
     Str(LogicRetiree), Str(Anomaly), Str(TestData), Str(DuplicateRecord)}

\* C30: every row of every returned table carries one of the eight labels
\* as its flag; a row flagged normal has income, satisfaction and workload,
\* neither an age above 70 nor a workload above 10, a department other than
\* the test one, and is no duplicate; a row with the retiree flag has an age
\* of 60 to 70.
C30_FlagLabels ==
    Returned =>
        \A i \in 1..len(result) :
            /\ Flag(i) \in FlagLabels
            /\ Flag(i) = Str(Normal) =>
                   /\ ~isna(result.rows[i]["monthly_income"])
                   /\ ~isna(result.rows[i]["overall_satis"])
                   /\ ~isna(result.rows[i]["workload"])
                   /\ ~Above(result.rows[i]["age"], 70)
                   /\ ~Above(result.rows[i]["workload"], 10)
                   /\ ~IsTestDept(i)
                   /\ result.rows[i]["is_duplicate"] = Bool(FALSE)
            /\ Flag(i) = Str(LogicRetiree) =>
                   /\ Above(result.rows[i]["age"], 59)
                   /\ ~Above(result.rows[i]["age"], 70)

\* C30 witness: a returned table of a row with the retiree flag and a row
\* flagged normal
C30_Witness ==
    /\ Returned
    /\ len(result) = 2
    /\ \E i, j \in 1..2 :
           /\ Flag(i) = Str(LogicRetiree)
           /\ Flag(j) = Str(Normal)
           /\ ~isna(result.rows[j]["monthly_income"])

====
